---- MODULE Spec2Model ----
(***************************************************************************)
(* A model of hubspot_sync: the retrying request helpers of the HubSpot    *)
(* and Mixpanel connectors, the paginated HubSpot search, and the Mixpanel *)
(* event aggregation and flush of mixpanel_kpi.main.                       *)
(*                                                                         *)
(* Each part has its own specification over the shared variables:          *)
(*   SpecRequest   one call of HubSpotConnector._request or                *)
(*                 MixpanelConnector._request, one action per loop         *)
(*                 iteration;                                              *)
(*   SpecSearch    one call of HubSpotConnector.search_objects, one action *)
(*                 per page (SpecSearchFair: the same with the loop kept   *)
(*                 running);                                               *)
(*   SpecAggregate the event loop of mixpanel_kpi.main, one action per     *)
(*                 event of the export stream;                             *)
(*   SpecMixpanel  one run of mixpanel_kpi.main, one action per event and  *)
(*                 one per flushed (event name, organization) pair;        *)
(*   SpecPageView  the event loop on page-view events of several urls;     *)
(*   SpecArr       one run of arr_sync.main, one action per staged row,    *)
(*                 written chunk and updated company;                      *)
(*   SpecDb        one run of DB_kpi.main, one action per stored row and   *)
(*                 per pushed organization;                                *)
(*   SpecCall      one call of a public operation of a connector, up to    *)
(*                 the result of its first request;                        *)
(*   SpecExport    the line loop of MixpanelConnector.export_events, one   *)
(*                 action per line of the response.                        *)
(***************************************************************************)
EXTENDS Integers, Sequences, FiniteSets, TLC

VARIABLES
    client,       \* which connector's _request is running: "hubspot" or "mixpanel"
    max_retries,  \* self.max_retries of that connector
    rq,           \* the frame of the running _request call (see RequestStart)
    \* --- HubSpotConnector.search_objects ---
    filter_groups, \* the filter_groups argument (a sequence of group names)
    all_results,   \* the local all_results
    after,         \* the local after
    sr_pc,         \* "enter", "loop", then "returned" or "raised"
    sr_ret,        \* what search_objects returned or raised
    posted,        \* the "after" entry of each payload posted (None: no entry)
    fetched,       \* what self._request gave back for each payload, in order
    \* --- mixpanel_kpi.main ---
    org_ids,         \* what mixpanel.get_property_values("organization_id") returned
    aggregated,      \* aggregated[event]: the ordered dict of buckets, as a sequence
    seen_insert_ids, \* seen_insert_ids[event]: set of $insert_id values
    consumed,        \* the events the export stream has yielded so far, in order
    mx_pc,           \* "stream", "flush", then "done" or "raised"
    fl_event,        \* flush: position in MIXPANEL_EVENT_TO_HUBSPOT_PROPERTY.items()
    fl_org,          \* flush: position in entries.items()
    hubspot_cache,   \* the dict hubspot_cache
    searches,        \* the calls of hubcon.search_company, in order, with their outcome
    flushed,         \* the (event, organization) pairs flushed, each with its payload
    updates,         \* the calls of hubcon.update_company_properties, in order
    companies_updated, \* the number printed at the end of main (-1 before)
    \* --- arr_sync.main ---
    ar_pc,         \* "search", "stage", "clear", "flush", "read", "companies", "ended"
    ar_end,        \* how main ended (see ArrEnds), "running" before
    has_deals,     \* whether active_deals["results"] holds a deal
    deal_search,   \* how search_objects ended for the deals: "exhausted", "aborted", "raised"
    stage_failure, \* the first failed retrieval met while staging, "none" when none
    sheet_updates, \* the list sheet_updates: the sheet row each staged range names
    row_index,     \* the local row_index
    skipped,       \* deals without line items and associations without id met so far
    clears,        \* what each clear_selected_columns call returned, in order
    start,         \* the loop variable of the chunk loop
    writes,        \* the batch_update_values calls: start, chunk and result, in order
    reported,      \* the row range of the error message, <<>> when none was logged
    sheet_pos,     \* rows of the company sheet taken so far, header excluded
    arr_updates,   \* the update_company_properties calls of arr_sync.main, in order
    updated_count, \* the local updated_count
    \* --- DB_kpi ---
    db_pc,           \* "fetch", "aggregate", "push", then "ended"
    db_end,          \* "completed" or "exception" once main has ended, "running" before
    kpi_rows,        \* the rows of business_review_kpis that pass the WHERE clause
    db_result,       \* what fetch_kpis returned: the delta rows, in fetchall's order
    db_row,          \* rows of db_result the first loop of main has taken
    aggregated_data, \* the dict aggregated_data, as a sequence in insertion order
    db_org,          \* entries of aggregated_data the second loop of main has taken
    db_searches,     \* the calls of hubcon.search_company of DB_kpi.main, in order
    db_updates,      \* the calls of hubcon.update_company_properties of DB_kpi.main
    \* --- one call of a connector's public operation ---
    cf_call,  \* the operation, its arguments and the credentials it runs with
    cf_pc,    \* "call", "generator", "request", then "raised" or "returned"
    cf_sent,  \* HTTP requests sent since the call
    cf_exc,   \* the exception raised, None when none
    cf_met,   \* the status each attempt of the request met, 0 for no response
    cf_ret,   \* what the operation did with the response of the request
    \* --- the line loop of MixpanelConnector.export_events ---
    ex_lines,   \* what resp.iter_lines() yields: the lines of the response body
    ex_pos,     \* lines taken from resp.iter_lines() so far
    ex_yielded, \* the values export_events has yielded, in order
    ex_pc       \* "lines", then "exhausted" or "raised"

rqVars == <<client, max_retries, rq>>

srVars == <<filter_groups, all_results, after, sr_pc, sr_ret, posted, fetched>>

mxVars == <<org_ids, aggregated, seen_insert_ids, consumed, mx_pc, fl_event, fl_org,
            hubspot_cache, searches, flushed, updates, companies_updated>>

arVars == <<ar_pc, ar_end, has_deals, deal_search, stage_failure, sheet_updates, row_index, skipped, clears, start, writes,
            reported, sheet_pos, arr_updates, updated_count>>

\* the state of the programs other than the connectors and mixpanel_kpi
dbVars == <<db_pc, db_end, kpi_rows, db_result, db_row, aggregated_data, db_org,
            db_searches, db_updates>>

cfVars == <<cf_call, cf_pc, cf_sent, cf_exc, cf_met, cf_ret>>

exVars == <<ex_lines, ex_pos, ex_yielded, ex_pc>>

xtVars == <<arVars, dbVars, cfVars, exVars>>

vars == <<rqVars, srVars, mxVars, xtVars>>

(***************************************************************************)
(* Python values.                                                          *)
(***************************************************************************)
\* Python's None, among string-valued fields.
None == "None"

\* Truthiness of an optional string: `if x:` is false for None and for "".
Truthy(x) == x # None /\ x # ""

\* b ** n for a natural exponent.
RECURSIVE Pow(_, _)
Pow(b, n) == IF n = 0 THEN 1 ELSE b * Pow(b, n - 1)

(***************************************************************************)
(* Bounds of the model.                                                    *)
(***************************************************************************)
\* The largest max_retries a connector is constructed with in the model.
MaxRetries == 3

\* The most pages the server holds for one search, and the most items on a page.
MaxPages == 3
MaxPageLen == 2

\* The most events the export stream yields: when only the event loop of
\* mixpanel_kpi.main is run, and when the whole of main is run.
MaxStream == 3
MaxRunEvents == 2

\* The most "page-view" events of the stream when the run is checked on urls.
MaxViews == 3

\* arr_sync.main: the most rows staged, the most deals or associations
\* skipped while staging, and the most rows read back from the company sheet.
MaxRows == 450
MaxSkips == 1
MaxSheetRows == 3

\* DB_kpi: the most rows of business_review_kpis in the window.
MaxKpiRows == 3

\* export_events: the most lines of the export response.
MaxLines == 3

(***************************************************************************)
(* Program constants.                                                      *)
(***************************************************************************)
\* max_retries: int = 3, the default every caller of the repository uses.
DEFAULT_MAX_RETRIES == 3

\* backoff_base: float = 1.5, kept exact as the fraction 3/2.
BACKOFF_BASE_NUM == 3
BACKOFF_BASE_DEN == 2

\* arr_sync: BATCH_SIZE = 200, and row_index = 2 before the first row.
BATCH_SIZE == 200
FIRST_ROW_INDEX == 2

(***************************************************************************)
(* What one HTTP attempt can meet upstream: a response with a status and   *)
(* an optional Retry-After header, or a transport-level exception          *)
(* (requests.RequestException other than HTTPError).                       *)
(***************************************************************************)
Statuses == {200, 404, 429, 500}

RetryAfterValues == {None, "", "0", "2", "-1", "Fri, 31 Dec 1999 23:59:59 GMT"}

TransportErrors == {"ConnectionError", "Timeout"}

Response(status, retry_after) ==
    [kind |-> "resp", status |-> status, retry_after |-> retry_after, exc |-> None]

TransportFailure(exc) ==
    [kind |-> "exc", status |-> 0, retry_after |-> None, exc |-> exc]

NoOutcome == [kind |-> "none", status |-> 0, retry_after |-> None, exc |-> None]

\* The header only matters on a 429; other statuses are modelled without it.
Upstream ==
    {Response(s, None) : s \in Statuses}
        \cup {Response(429, h) : h \in RetryAfterValues}
        \cup {TransportFailure(e) : e \in TransportErrors}

(***************************************************************************)
(* Delays are exact fractions <<numerator, denominator>> of a second.      *)
(***************************************************************************)
\* float(retry_after): the strings that parse as a number, and their value.
FloatParses(s) == s \in {"0", "2", "-1"}

FloatOf(s) == CASE s = "0"  -> <<0, 1>>
                [] s = "2"  -> <<2, 1>>
                [] s = "-1" -> <<-1, 1>>
                [] OTHER    -> <<0, 0>>

\* self.backoff_base ** attempt
BackoffDelay_Constant(attempt) == <<BACKOFF_BASE_NUM, BACKOFF_BASE_DEN>>

BackoffDelay(attempt) ==
    <<Pow(BACKOFF_BASE_NUM, attempt), Pow(BACKOFF_BASE_DEN, attempt)>>

\* a < b for two fractions with positive denominators
DelayLess(a, b) == a[1] * b[2] < b[1] * a[2]

(***************************************************************************)
(* The frame of one _request call.                                         *)
(*   pc        "attempt" while the for loop runs, then "returned"/"raised" *)
(*   attempt   the loop variable                                           *)
(*   last_exc  the local last_exc                                          *)
(*   result    what the call returned or raised                            *)
(*   sent      HTTP requests issued so far                                 *)
(*   slept     the time.sleep calls made, in order, each with the attempt  *)
(*             index it was made in and its delay                          *)
(*   upstream  what each attempt met, in order                             *)
(***************************************************************************)
NoResult == [kind |-> "none", exc |-> None, carries |-> None, resp |-> NoOutcome]

Returned(resp) == [kind |-> "response", exc |-> None, carries |-> None, resp |-> resp]

Raised(exc, carries, resp) ==
    [kind |-> "raise", exc |-> exc, carries |-> carries, resp |-> resp]

RequestStart ==
    [pc |-> "attempt", attempt |-> 0, last_exc |-> None, result |-> NoResult,
     sent |-> 0, slept |-> <<>>, upstream |-> <<>>]

RequestIdle ==
    [pc |-> "idle", attempt |-> 0, last_exc |-> None, result |-> NoResult,
     sent |-> 0, slept |-> <<>>, upstream |-> <<>>]

\* `continue`: the for loop takes its next value; when range(max_retries + 1)
\* is exhausted the loop ends and the statement after it raises RuntimeError.
Continue(mr, st) ==
    IF st.attempt + 1 <= mr
    THEN [st EXCEPT !.attempt = st.attempt + 1]
    ELSE [st EXCEPT !.pc = "raised",
                    !.result = Raised("RuntimeError", st.last_exc, NoOutcome)]

\* time.sleep(delay); continue.  time.sleep raises ValueError for a negative
\* delay, which neither handler catches.
SleepAndContinue(mr, st, delay) ==
    IF delay[1] < 0
    THEN [st EXCEPT !.pc = "raised",
                    !.result = Raised("ValueError", None, NoOutcome)]
    ELSE Continue(mr, [st EXCEPT !.slept = Append(st.slept,
                                      [attempt |-> st.attempt, delay |-> delay])])

\* `resp.status_code == 429 and attempt < self.max_retries`
RetryOn429_NoBudget(status, attempt, mr) == status = 429

RetryOn429_AnyError(status, attempt, mr) == status >= 400 /\ attempt < mr

RetryOn429(status, attempt, mr) == status = 429 /\ attempt < mr

\* `attempt < self.max_retries` of the transport-failure handler
RetryOnTransportFailure(attempt, mr) == attempt < mr

\* The 429 branch: retry_after = resp.headers.get("Retry-After");
\* delay = float(retry_after) if retry_after else backoff_base ** attempt;
\* time.sleep(delay); continue.  float() of a string that is no number raises
\* ValueError, which neither handler catches.
RateLimited(mr, st, resp) ==
    IF Truthy(resp.retry_after)
    THEN IF FloatParses(resp.retry_after)
         THEN SleepAndContinue(mr, st, FloatOf(resp.retry_after))
         ELSE [st EXCEPT !.pc = "raised",
                         !.result = Raised("ValueError", None, NoOutcome)]
    ELSE SleepAndContinue(mr, st, BackoffDelay(st.attempt))

\* except requests.RequestException as exc: last_exc = exc; retry with the
\* exponential delay while attempts remain, else break to the final raise.
LastExc_KeepFirst(st, exc) == IF st.last_exc = None THEN exc ELSE st.last_exc

LastExc(st, exc) == exc

TransportFailed(mr, st, exc) ==
    LET s1 == [st EXCEPT !.last_exc = LastExc(st, exc)] IN
    IF RetryOnTransportFailure(s1.attempt, mr)
    THEN SleepAndContinue(mr, s1, BackoffDelay(s1.attempt))
    ELSE [s1 EXCEPT !.pc = "raised",
                    !.result = Raised("RuntimeError", s1.last_exc, NoOutcome)]

\* The request is issued and its outcome `o` received.
Issue(st, o) ==
    [st EXCEPT !.sent = st.sent + 1, !.upstream = Append(st.upstream, o)]

\* One iteration of the for loop of HubSpotConnector._request.
HubSpotAttempt(mr, st, o) ==
    LET s1 == Issue(st, o) IN
    IF o.kind = "exc"
    THEN TransportFailed(mr, s1, o.exc)
    ELSE IF RetryOn429(o.status, s1.attempt, mr)
         THEN RateLimited(mr, s1, o)
         ELSE [s1 EXCEPT !.pc = "returned", !.result = Returned(o)]

\* resp.raise_for_status(): HTTPError for a 4xx or 5xx status.
RaisesForStatus_Never(status) == FALSE

RaisesForStatus(status) == 400 <= status /\ status < 600

\* One iteration of the for loop of MixpanelConnector._request.
MixpanelAttempt(mr, st, o) ==
    LET s1 == Issue(st, o) IN
    IF o.kind = "exc"
    THEN TransportFailed(mr, s1, o.exc)
    ELSE IF RaisesForStatus(o.status)
         THEN IF RetryOn429(o.status, s1.attempt, mr)
              THEN RateLimited(mr, s1, o)
              ELSE [s1 EXCEPT !.pc = "raised",
                              !.result = Raised("HTTPError", None, o)]
         ELSE [s1 EXCEPT !.pc = "returned", !.result = Returned(o)]

(***************************************************************************)
(* What a whole _request call of a default HubSpotConnector can hand to    *)
(* its caller: the result of the loop above run to its end on any upstream *)
(* behaviour.                                                              *)
(***************************************************************************)
RECURSIVE RunHubSpotRequest(_, _)
RunHubSpotRequest(st, script) ==
    IF st.pc # "attempt" \/ script = <<>>
    THEN st
    ELSE RunHubSpotRequest(HubSpotAttempt(DEFAULT_MAX_RETRIES, st, Head(script)),
                           Tail(script))

HubSpotRequestResults ==
    {RunHubSpotRequest(RequestStart, script).result :
        script \in [1..(DEFAULT_MAX_RETRIES + 1) -> Upstream]}

\* The same for a default MixpanelConnector.
RECURSIVE RunMixpanelRequest(_, _)
RunMixpanelRequest(st, script) ==
    IF st.pc # "attempt" \/ script = <<>>
    THEN st
    ELSE RunMixpanelRequest(MixpanelAttempt(DEFAULT_MAX_RETRIES, st, Head(script)),
                            Tail(script))

\* How a whole _request call can end: the requests it sent and what it
\* returned or raised.
RequestEnd(st) == [sent |-> st.sent, kind |-> st.result.kind, exc |-> st.result.exc]

HubSpotRequestEnds ==
    {RequestEnd(RunHubSpotRequest(RequestStart, script)) :
        script \in [1..(DEFAULT_MAX_RETRIES + 1) -> Upstream]}

MixpanelRequestEnds ==
    {RequestEnd(RunMixpanelRequest(RequestStart, script)) :
        script \in [1..(DEFAULT_MAX_RETRIES + 1) -> Upstream]}

\* A whole _request call as the operation that made it meets it: how it
\* ended, the response it returned or the exception it raised, and the
\* status each of its attempts was answered with (0: no response came).
StatusMet(o) == IF o.kind = "resp" THEN o.status ELSE 0

RequestRun(st) ==
    [end |-> RequestEnd(st), result |-> st.result,
     met |-> [i \in 1..Len(st.upstream) |-> StatusMet(st.upstream[i])]]

HubSpotRequestRuns ==
    {RequestRun(RunHubSpotRequest(RequestStart, script)) :
        script \in [1..(DEFAULT_MAX_RETRIES + 1) -> Upstream]}

MixpanelRequestRuns ==
    {RequestRun(RunMixpanelRequest(RequestStart, script)) :
        script \in [1..(DEFAULT_MAX_RETRIES + 1) -> Upstream]}

(***************************************************************************)
(* HubSpotConnector.search_objects.                                        *)
(*                                                                         *)
(* The JSON body of a 200 search response: "results", and the cursor under *)
(* "paging"/"next"/"after", any level of which may be missing.  The server *)
(* numbers the items it serves 1, 2, 3, ... so that every item is distinct.*)
(***************************************************************************)
Tokens == {None, "", "t1", "t2"}

Pagings ==
    {[has_paging |-> FALSE, has_next |-> FALSE, after |-> None],
     [has_paging |-> TRUE, has_next |-> FALSE, after |-> None]}
        \cup {[has_paging |-> TRUE, has_next |-> TRUE, after |-> t] : t \in Tokens}

NoBody == [results |-> <<>>, paging |-> [has_paging |-> FALSE, has_next |-> FALSE, after |-> None]]

\* data.get("paging", {}).get("next", {}).get("after")
PagingAfter(data) ==
    IF data.paging.has_paging /\ data.paging.has_next THEN data.paging.after ELSE None

\* the k items the server serves after having served n
ItemsFrom(n, k) == [i \in 1..k |-> n + i]

\* if after: payload["after"] = after
PayloadAfter_Never(a) == None

PayloadAfter(a) == IF Truthy(a) THEN a ELSE None

\* all_results.extend(results)
Extend_Prepend(acc, results) == results \o acc

Extend(acc, results) == acc \o results

\* return {"results": all_results}
SearchReturn(items) == [kind |-> "return", exc |-> None, value |-> [results |-> items]]

SearchRaise(exc) == [kind |-> "raise", exc |-> exc, value |-> [results |-> <<>>]]

NoSearchReturn == [kind |-> "none", exc |-> None, value |-> [results |-> <<>>]]

SearchIdle ==
    /\ filter_groups = <<>>
    /\ all_results = <<>>
    /\ after = None
    /\ sr_pc = "idle"
    /\ sr_ret = NoSearchReturn
    /\ posted = <<>>
    /\ fetched = <<>>

MixpanelIdle ==
    /\ org_ids = <<>>
    /\ aggregated = <<>>
    /\ seen_insert_ids = <<>>
    /\ consumed = <<>>
    /\ mx_pc = "idle"
    /\ fl_event = 0
    /\ fl_org = 0
    /\ hubspot_cache = <<>>
    /\ searches = <<>>
    /\ flushed = <<>>
    /\ updates = <<>>
    /\ companies_updated = -1

ArrIdle ==
    /\ ar_pc = "idle"
    /\ ar_end = "running"
    /\ has_deals = FALSE
    /\ deal_search = "none"
    /\ stage_failure = "none"
    /\ sheet_updates = <<>>
    /\ row_index = 0
    /\ skipped = 0
    /\ clears = <<>>
    /\ start = 0
    /\ writes = <<>>
    /\ reported = <<>>
    /\ sheet_pos = 0
    /\ arr_updates = <<>>
    /\ updated_count = 0

DbIdle ==
    /\ db_pc = "idle"
    /\ db_end = "running"
    /\ kpi_rows = <<>>
    /\ db_result = <<>>
    /\ db_row = 0
    /\ aggregated_data = <<>>
    /\ db_org = 0
    /\ db_searches = <<>>
    /\ db_updates = <<>>

\* the arguments of a call of a connector's operation
Call(op, token, username, secret, project_id, arg) ==
    [op |-> op, token |-> token, username |-> username, secret |-> secret,
     project_id |-> project_id, arg |-> arg]

\* the operation has not come to the statements after its request
NoReturn == [status |-> 0, value |-> "none", log |-> "none", aborted |-> FALSE]

CallIdle ==
    /\ cf_call = Call("none", "", "", "", "", <<>>)
    /\ cf_pc = "idle"
    /\ cf_sent = 0
    /\ cf_exc = None
    /\ cf_met = <<>>
    /\ cf_ret = NoReturn

ExportIdle ==
    /\ ex_lines = <<>>
    /\ ex_pos = 0
    /\ ex_yielded = <<>>
    /\ ex_pc = "idle"

\* arr_sync, DB_kpi and single calls of the connectors are not running
ExtraIdle == ArrIdle /\ DbIdle /\ CallIdle /\ ExportIdle

\* items the server has served in 200 responses so far
RECURSIVE Served(_)
Served(f) ==
    IF f = <<>> THEN 0
    ELSE Served(SubSeq(f, 1, Len(f) - 1))
            + (IF f[Len(f)].result.kind = "response" /\ f[Len(f)].result.resp.status = 200
               THEN Len(f[Len(f)].data.results) ELSE 0)

InitSearch ==
    /\ client = "hubspot"
    /\ max_retries = DEFAULT_MAX_RETRIES
    /\ rq = RequestIdle
    /\ filter_groups \in {<<>>, <<"group">>}
    /\ all_results = <<>>
    /\ after = None
    /\ sr_pc = "enter"
    /\ sr_ret = NoSearchReturn
    /\ posted = <<>>
    /\ fetched = <<>>
    /\ MixpanelIdle
    /\ ExtraIdle

\* if not filter_groups: raise ValueError(...); all_results = []; after = None
SearchEnter ==
    /\ sr_pc = "enter"
    /\ IF filter_groups = <<>>
       THEN sr_pc' = "raised" /\ sr_ret' = SearchRaise("ValueError")
       ELSE sr_pc' = "loop" /\ UNCHANGED sr_ret
    /\ UNCHANGED <<filter_groups, all_results, after, posted, fetched>>
    /\ UNCHANGED <<rqVars, mxVars, xtVars>>

\* One iteration of `while True` whose _request call raises: the exception
\* leaves search_objects.
SearchPageRaises ==
    /\ sr_pc = "loop"
    /\ \E r \in HubSpotRequestResults :
          /\ r.kind = "raise"
          /\ posted' = Append(posted, PayloadAfter(after))
          /\ fetched' = Append(fetched, [result |-> r, data |-> NoBody])
          /\ sr_pc' = "raised"
          /\ sr_ret' = SearchRaise(r.exc)
    /\ UNCHANGED <<filter_groups, all_results, after>>
    /\ UNCHANGED <<rqVars, mxVars, xtVars>>

\* One iteration of `while True` whose response is not a 200: log and break.
SearchPageFails ==
    /\ sr_pc = "loop"
    /\ \E r \in HubSpotRequestResults :
          /\ r.kind = "response" /\ r.resp.status # 200
          /\ posted' = Append(posted, PayloadAfter(after))
          /\ fetched' = Append(fetched, [result |-> r, data |-> NoBody])
          /\ sr_pc' = "returned"
          /\ sr_ret' = SearchReturn(all_results)
    /\ UNCHANGED <<filter_groups, all_results, after>>
    /\ UNCHANGED <<rqVars, mxVars, xtVars>>

\* One iteration of `while True` on a 200 response: extend all_results, read
\* the cursor, and break when there is none.  The server holds at most
\* MaxPages pages: its last page carries no cursor.
SearchPageOk ==
    /\ sr_pc = "loop"
    /\ \E r \in HubSpotRequestResults, k \in 0..MaxPageLen, p \in Pagings :
          /\ r.kind = "response" /\ r.resp.status = 200
          /\ Len(fetched) + 1 >= MaxPages => ~Truthy(PagingAfter([paging |-> p]))
          /\ LET data == [results |-> ItemsFrom(Served(fetched), k), paging |-> p]
                 acc  == Extend(all_results, data.results)
                 nxt  == PagingAfter(data)
             IN /\ posted' = Append(posted, PayloadAfter(after))
                /\ fetched' = Append(fetched, [result |-> r, data |-> data])
                /\ all_results' = acc
                /\ after' = nxt
                /\ IF ~Truthy(nxt)
                   THEN sr_pc' = "returned" /\ sr_ret' = SearchReturn(acc)
                   ELSE sr_pc' = "loop" /\ UNCHANGED sr_ret
    /\ UNCHANGED filter_groups
    /\ UNCHANGED <<rqVars, mxVars, xtVars>>

NextSearch == SearchEnter \/ SearchPageRaises \/ SearchPageFails \/ SearchPageOk

SpecSearch == InitSearch /\ [][NextSearch]_vars

\* The loop is sequential code: while it can take a step it takes one.
SpecSearchFair == SpecSearch /\ WF_vars(NextSearch)

(***************************************************************************)
(* SpecRequest: one _request call of either connector.                     *)
(***************************************************************************)
InitRequest ==
    /\ client \in {"hubspot", "mixpanel"}
    /\ max_retries \in 0..MaxRetries
    /\ rq = RequestStart
    /\ SearchIdle
    /\ MixpanelIdle
    /\ ExtraIdle

HubSpotRequest ==
    /\ client = "hubspot"
    /\ rq.pc = "attempt"
    /\ \E o \in Upstream : rq' = HubSpotAttempt(max_retries, rq, o)
    /\ UNCHANGED <<client, max_retries>>
    /\ UNCHANGED <<srVars, mxVars, xtVars>>

MixpanelRequest ==
    /\ client = "mixpanel"
    /\ rq.pc = "attempt"
    /\ \E o \in Upstream : rq' = MixpanelAttempt(max_retries, rq, o)
    /\ UNCHANGED <<client, max_retries>>
    /\ UNCHANGED <<srVars, mxVars, xtVars>>

NextRequest == HubSpotRequest \/ MixpanelRequest

SpecRequest == InitRequest /\ [][NextRequest]_vars

(***************************************************************************)
(* mixpanel_kpi.main.                                                      *)
(*                                                                         *)
(* MIXPANEL_EVENT_TO_HUBSPOT_PROPERTY is modelled with one event name of   *)
(* each kind of mapping: "api-call" maps to a property name, "page-view"   *)
(* to keyword rules.  A url is the sequence of the pieces of its text, so  *)
(* that `keyword in url` is "occurs as a run of consecutive pieces"; the   *)
(* empty sequence stands for a missing or empty url.                       *)
(***************************************************************************)
NoUrl == <<>>

DashboardUrl == <<"/app/", "dashboard">>

BillingUrl == <<"/app/", "billing">>

DashboardSubUrl == <<"/app/", "dashboard", "/x">>

\* the same path spelt with a capital letter
CapitalUrl == <<"/app/", "Dashboard">>

EventMap ==
    <<[event |-> "api-call", direct |-> TRUE,
       property |-> "api_calls_past_90_days", rules |-> <<>>],
      [event |-> "page-view", direct |-> FALSE, property |-> None,
       rules |-> <<[keyword |-> <<"dashboard">>,
                    property |-> "dashboard_views_past_90_days"]>>]>>

\* event_names = list(MIXPANEL_EVENT_TO_HUBSPOT_PROPERTY)
TrackedNames == {EventMap[i].event : i \in 1..Len(EventMap)}

\* One record of the export stream: "event" and, from "properties",
\* "$insert_id", "organization_id" and "url" (None or NoUrl when missing).
\* An organization id that is a JSON number n is written "#n".
Event(name, insert_id, organization_id, url) ==
    [event |-> name, insert_id |-> insert_id,
     organization_id |-> organization_id, url |-> url]

\* str(cozero_org_id)
Str(x) == CASE x = "#7" -> "7" [] OTHER -> x

\* The streams the event loop is run on alone.
EventsWide ==
    {Event("api-call", i, o, NoUrl) :
        i \in {None, "a", "b"}, o \in {"#7", "o2", "UNKNOWN"}}
        \cup {Event("page-view", i, o, u) :
                i \in {None, "a"}, o \in {"#7", "o2", "UNKNOWN"},
                u \in {NoUrl, DashboardUrl}}
        \cup {Event("api-call", "", "#7", NoUrl),
              Event("api-call", "a", None, NoUrl),
              Event("signup", "a", "#7", NoUrl)}

\* The streams the whole of main is run on.
EventsRun ==
    {Event("api-call", "a", "#7", NoUrl),
     Event("api-call", None, "o2", NoUrl),
     Event("page-view", None, "#7", DashboardUrl),
     Event("page-view", None, "#7", BillingUrl),
     Event("page-view", "a", "UNKNOWN", DashboardUrl),
     Event("signup", "a", "#7", NoUrl)}

\* The "page-view" streams the whole of main is run on for the url counts.
EventsViews ==
    {Event("page-view", None, "#7", u) :
        u \in {NoUrl, DashboardUrl, BillingUrl, DashboardSubUrl, CapitalUrl}}

\* What get_property_values("organization_id") can return: distinct strings,
\* None, "" and "UNKNOWN" already removed.
PreSeeds == {<<>>, <<"7">>, <<"7", "o2">>}

\* {org_id: {"urls": [], "count": 0} for org_id in org_ids}
SeedBuckets_None(ids) == <<>>

SeedBuckets(ids) ==
    [i \in 1..Len(ids) |-> [org_id |-> ids[i], urls |-> <<>>, count |-> 0]]

HasBucket(entries, org) == \E i \in 1..Len(entries) : entries[i].org_id = org

BucketIndex(entries, org) == CHOOSE i \in 1..Len(entries) : entries[i].org_id = org

\* aggregated[event_name].setdefault(org_id_str, {"urls": [], "count": 0})
SetDefault_CountOne(entries, org) ==
    IF HasBucket(entries, org)
    THEN entries
    ELSE Append(entries, [org_id |-> org, urls |-> <<>>, count |-> 1])

SetDefault(entries, org) ==
    IF HasBucket(entries, org)
    THEN entries
    ELSE Append(entries, [org_id |-> org, urls |-> <<>>, count |-> 0])

\* if url: entry["urls"].append(url);  entry["count"] = int(entry["count"]) + 1
AddEvent_Overwrite(entry, url) ==
    [entry EXCEPT !.urls = IF url # NoUrl THEN Append(@, url) ELSE @,
                  !.count = 1]

AddEvent(entry, url) ==
    [entry EXCEPT !.urls = IF url # NoUrl THEN Append(@, url) ELSE @,
                  !.count = @ + 1]

\* `if insert_id: if insert_id in seen_insert_ids[event_name]: continue`
IsDuplicate_Never(insert_id, seen) == FALSE

IsDuplicate(insert_id, seen) == Truthy(insert_id) /\ insert_id \in seen

\* `cozero_org_id in (None, "", "UNKNOWN")`
IsUnknownOrg(org) == org \in {None, "", "UNKNOWN"}

\* `if insert_id: ... seen_insert_ids[event_name].add(insert_id)`, which runs
\* before properties.get("organization_id") is read
RecordSeen_AttributableOnly(seen, e) ==
    IF Truthy(e.insert_id) /\ ~IsUnknownOrg(e.organization_id)
    THEN [seen EXCEPT ![e.event] = @ \cup {e.insert_id}]
    ELSE seen

RecordSeen_AllNames(seen, e) ==
    IF Truthy(e.insert_id)
    THEN [n \in DOMAIN seen |-> seen[n] \cup {e.insert_id}]
    ELSE seen

RecordSeen(seen, e) ==
    IF Truthy(e.insert_id)
    THEN [seen EXCEPT ![e.event] = @ \cup {e.insert_id}]
    ELSE seen

\* The body of `for event in event_stream`.
ProcessEvent(agg, seen, e) ==
    IF e.event \notin DOMAIN agg
    THEN [aggregated |-> agg, seen |-> seen]
    ELSE IF IsDuplicate(e.insert_id, seen[e.event])
    THEN [aggregated |-> agg, seen |-> seen]
    ELSE LET seen2 == RecordSeen(seen, e)
         IN IF IsUnknownOrg(e.organization_id)
            THEN [aggregated |-> agg, seen |-> seen2]
            ELSE LET org     == Str(e.organization_id)
                     entries == SetDefault(agg[e.event], org)
                     i       == BucketIndex(entries, org)
                 IN [aggregated |->
                        [agg EXCEPT ![e.event] =
                            [entries EXCEPT ![i] = AddEvent(@, e.url)]],
                     seen |-> seen2]

\* `keyword in url`
Contains_StartsWith(url, keyword) ==
    Len(keyword) <= Len(url) /\ SubSeq(url, 1, Len(keyword)) = keyword

Contains(url, keyword) ==
    \E i \in 1..(Len(url) - Len(keyword) + 1) :
        SubSeq(url, i, i + Len(keyword) - 1) = keyword

\* sum(1 for url in urls if keyword in url)
KeywordCount(urls, keyword) ==
    Cardinality({i \in 1..Len(urls) : Contains(urls[i], keyword)})

\* property_updates of one (event name, bucket) pair; in the dict
\* comprehension the last rule naming a property sets its value.
PropertyUpdates(mapping, entry) ==
    IF mapping.direct
    THEN [p \in {mapping.property} |-> entry.count]
    ELSE [p \in {mapping.rules[i].property : i \in 1..Len(mapping.rules)} |->
            LET i == CHOOSE i \in 1..Len(mapping.rules) :
                        /\ mapping.rules[i].property = p
                        /\ \A j \in (i + 1)..Len(mapping.rules) :
                              mapping.rules[j].property # p
            IN KeywordCount(entry.urls, mapping.rules[i].keyword)]

\* The CRM company of an organization, when it has one.
CompanyOf(org) == CASE org = "7" -> "c7" [] org = "o2" -> "c2" [] OTHER -> "c0"

\* What hubcon.search_company({"organisation_id": org_id}, {}, 1) can return.
SearchCompanyReturns(org) ==
    {SearchReturn(<<>>),
     SearchReturn(<<[id |-> CompanyOf(org)]>>),
     SearchReturn(<<[id |-> None]>>)}

\* results[0].get("id") if results else None
FirstId(ret) ==
    IF ret.value.results # <<>> THEN ret.value.results[1].id ELSE None

\* update_object: ValueError on empty properties before any request; else the
\* JSON body on a 200, None on any other status, or _request's exception.
UpdateObject(properties, r) ==
    IF DOMAIN properties = {} THEN "raised"
    ELSE IF r.kind = "raise" THEN "raised"
    ELSE IF r.resp.status = 200 THEN "ok"
    ELSE "none"

\* hubspot_cache[org_id] = hubspot_org_id
CachePut_HitsOnly(cache, org, company) ==
    IF Truthy(company)
    THEN [o \in DOMAIN cache \cup {org} |-> IF o = org THEN company ELSE cache[o]]
    ELSE cache

CachePut(cache, org, company) ==
    [o \in DOMAIN cache \cup {org} |-> IF o = org THEN company ELSE cache[o]]

\* The first (event, bucket) position at or after (ev, i) in the order of
\* the two nested for loops; ev = Len(EventMap) + 1 when there is none.
RECURSIVE NextPosition(_, _, _)
NextPosition(agg, ev, i) ==
    IF ev > Len(EventMap) THEN <<ev, 1>>
    ELSE IF i <= Len(agg[EventMap[ev].event]) THEN <<ev, i>>
    ELSE NextPosition(agg, ev + 1, 1)

InitMixpanel ==
    /\ client = "hubspot"
    /\ max_retries = DEFAULT_MAX_RETRIES
    /\ rq = RequestIdle
    /\ SearchIdle
    /\ org_ids \in PreSeeds
    /\ aggregated = [n \in TrackedNames |-> SeedBuckets(org_ids)]
    /\ seen_insert_ids = [n \in TrackedNames |-> {}]
    /\ consumed = <<>>
    /\ mx_pc = "stream"
    /\ fl_event = 0
    /\ fl_org = 0
    /\ hubspot_cache = <<>>
    /\ searches = <<>>
    /\ flushed = <<>>
    /\ updates = <<>>
    /\ companies_updated = -1
    /\ ExtraIdle

flushVars == <<fl_event, fl_org, hubspot_cache, searches, flushed, updates,
               companies_updated>>

\* main is in `for event in event_stream`: the flush loops come after it
InEventLoop_DuringFlush == mx_pc \in {"stream", "flush"}

InEventLoop == mx_pc = "stream"

\* One iteration of `for event in event_stream`, on an event of `events`.
EventLoop(events, most) ==
    /\ InEventLoop
    /\ Len(consumed) < most
    /\ \E e \in events :
          LET nxt == ProcessEvent(aggregated, seen_insert_ids, e) IN
          /\ consumed' = Append(consumed, e)
          /\ aggregated' = nxt.aggregated
          /\ seen_insert_ids' = nxt.seen
    /\ UNCHANGED <<org_ids, mx_pc>>
    /\ UNCHANGED flushVars
    /\ UNCHANGED <<rqVars, srVars, xtVars>>

EventLoopWide == EventLoop(EventsWide, MaxStream)

EventLoopRun == EventLoop(EventsRun, MaxRunEvents)

EventLoopViews == EventLoop(EventsViews, MaxViews)

\* The number printed at the end of main.
CompaniesUpdated(cache) == Cardinality({o \in DOMAIN cache : Truthy(cache[o])})

\* Move to the next (event, bucket) pair from (ev, i); after the last pair
\* main prints the number of companies and returns.
MoveOn(ev, i) ==
    LET nxt == NextPosition(aggregated, ev, i) IN
    /\ fl_event' = nxt[1]
    /\ fl_org' = nxt[2]
    /\ IF nxt[1] > Len(EventMap)
       THEN mx_pc' = "done" /\ companies_updated' = CompaniesUpdated(hubspot_cache')
       ELSE UNCHANGED <<mx_pc, companies_updated>>

\* The export stream is exhausted: hubspot_cache = {} and the flush starts.
StreamEnds ==
    /\ mx_pc = "stream"
    /\ hubspot_cache' = <<>>
    /\ LET nxt == NextPosition(aggregated, 1, 1) IN
       /\ fl_event' = nxt[1]
       /\ fl_org' = nxt[2]
       /\ IF nxt[1] > Len(EventMap)
          THEN mx_pc' = "done" /\ companies_updated' = 0
          ELSE mx_pc' = "flush" /\ UNCHANGED companies_updated
    /\ UNCHANGED <<org_ids, aggregated, seen_insert_ids, consumed, searches, flushed, updates>>
    /\ UNCHANGED <<rqVars, srVars, xtVars>>

\* The export request or the stream raises (MixpanelConnector._request or
\* iter_lines): the exception leaves main before any flush.
StreamRaises ==
    /\ mx_pc = "stream"
    /\ mx_pc' = "raised"
    /\ UNCHANGED <<org_ids, aggregated, seen_insert_ids, consumed>>
    /\ UNCHANGED flushVars
    /\ UNCHANGED <<rqVars, srVars, xtVars>>

FlushMapping == EventMap[fl_event]

FlushEntry == aggregated[FlushMapping.event][fl_org]

FlushRecord(company) ==
    [event |-> FlushMapping.event, org_id |-> FlushEntry.org_id,
     properties |-> PropertyUpdates(FlushMapping, FlushEntry), company |-> company]

\* `if not hubspot_org_id: continue`, else the update and its report.
UpdateStep(company) ==
    /\ flushed' = Append(flushed, FlushRecord(company))
    /\ IF ~Truthy(company)
       THEN UNCHANGED updates
       ELSE \E r \in HubSpotRequestResults :
              LET props   == PropertyUpdates(FlushMapping, FlushEntry)
                  outcome == UpdateObject(props, r)
              IN updates' = Append(updates,
                     [org_id |-> FlushEntry.org_id, company |-> company,
                      properties |-> props, outcome |-> outcome,
                      reported |-> IF outcome = "raised" THEN "failed" ELSE "updated"])
    /\ MoveOn(fl_event, fl_org + 1)

\* One pair whose organization is in hubspot_cache.
FlushCached ==
    /\ mx_pc = "flush"
    /\ FlushEntry.org_id \in DOMAIN hubspot_cache
    /\ UNCHANGED <<hubspot_cache, searches>>
    /\ UpdateStep(hubspot_cache[FlushEntry.org_id])
    /\ UNCHANGED <<org_ids, aggregated, seen_insert_ids, consumed>>
    /\ UNCHANGED <<rqVars, srVars, xtVars>>

\* One pair whose search_company call raises: cache None and continue.
FlushSearchRaises ==
    /\ mx_pc = "flush"
    /\ FlushEntry.org_id \notin DOMAIN hubspot_cache
    /\ searches' = Append(searches, [org_id |-> FlushEntry.org_id, raised |-> TRUE,
                                     company |-> None])
    /\ hubspot_cache' = CachePut(hubspot_cache, FlushEntry.org_id, None)
    /\ flushed' = Append(flushed, FlushRecord(None))
    /\ UNCHANGED updates
    /\ MoveOn(fl_event, fl_org + 1)
    /\ UNCHANGED <<org_ids, aggregated, seen_insert_ids, consumed>>
    /\ UNCHANGED <<rqVars, srVars, xtVars>>

\* One pair whose search_company call returns: cache the first id (or None).
FlushSearchReturns ==
    /\ mx_pc = "flush"
    /\ FlushEntry.org_id \notin DOMAIN hubspot_cache
    /\ \E ret \in SearchCompanyReturns(FlushEntry.org_id) :
          /\ searches' = Append(searches, [org_id |-> FlushEntry.org_id, raised |-> FALSE,
                                           company |-> FirstId(ret)])
          /\ hubspot_cache' = CachePut(hubspot_cache, FlushEntry.org_id, FirstId(ret))
          /\ UpdateStep(FirstId(ret))
    /\ UNCHANGED <<org_ids, aggregated, seen_insert_ids, consumed>>
    /\ UNCHANGED <<rqVars, srVars, xtVars>>

NextAggregate == EventLoopWide

SpecAggregate == InitMixpanel /\ [][NextAggregate]_vars

NextMixpanel ==
    \/ EventLoopRun
    \/ StreamEnds
    \/ StreamRaises
    \/ FlushCached
    \/ FlushSearchRaises
    \/ FlushSearchReturns

SpecMixpanel == InitMixpanel /\ [][NextMixpanel]_vars

\* The same run on a stream of "page-view" events with various urls.
NextPageView ==
    \/ EventLoopViews
    \/ StreamEnds
    \/ StreamRaises
    \/ FlushCached
    \/ FlushSearchRaises
    \/ FlushSearchReturns

SpecPageView == InitMixpanel /\ [][NextPageView]_vars

(***************************************************************************)
(* arr_sync.main.                                                          *)
(*                                                                         *)
(* A staged entry of sheet_updates is the sheet row its "range" names      *)
(* ("LineItem Import!A<row>:AG<row>").  The deals, their associations and  *)
(* the rows of the company sheet are data of the collaborators: the model  *)
(* draws them one at a time when main reaches them.                        *)
(***************************************************************************)
\* How main can end: the return after each logged abort, the return at the
\* end, or an exception leaving main.
ArrEnds == {"no_deals", "associations", "payload", "line_item", "chunk", "no_data",
            "update", "completed", "exception"}

\* `not active_deals or "results" not in active_deals`, on the dict that
\* search_objects returned
NoDeals(value) == DOMAIN value = {} \/ "results" \notin DOMAIN value

\* sheet_updates[start : start + BATCH_SIZE]
Chunk_OffByOne(updates_list, from) ==
    SubSeq(updates_list, from + 1,
           IF from + BATCH_SIZE - 1 < Len(updates_list)
           THEN from + BATCH_SIZE - 1 ELSE Len(updates_list))

Chunk(updates_list, from) ==
    SubSeq(updates_list, from + 1,
           IF from + BATCH_SIZE < Len(updates_list)
           THEN from + BATCH_SIZE ELSE Len(updates_list))

\* first_row = start + 2
FirstRow_SheetStartsAtOne(from) == from + 1

FirstRow(from) == from + 2

\* last_row = first_row + len(chunk) - 1
LastRow(first_row, chunk) == first_row + Len(chunk) - 1

\* What batch_get_values can give: {} after an HttpError, a reply without
\* value range, a value range without values, or one with a header row.
SheetReads == {"error", "no_ranges", "no_values", "values"}

\* `not value_ranges or not value_ranges[0].get("values")`
NoCompanyData(read) == read # "values"

\* The rows below the header: fewer than four cells, an empty company id, or
\* a company id with its three figures.
SheetRows ==
    {[cells |-> 3, company_id |-> "c1"],
     [cells |-> 4, company_id |-> ""],
     [cells |-> 4, company_id |-> "c1"]}

\* `if len(row) < 4: continue` and `if not company_id: ... continue`
SkipsRow_EmptyIdSent(row) == row.cells < 4

SkipsRow(row) == row.cells < 4 \/ ~Truthy(row.company_id)

\* properties of one company update
ArrProperties(row) ==
    [p \in {"current_booked_arr", "current_nrr__mom_",
            "total_current_nrr__mom____weighted"} |-> row.company_id]

InitArr ==
    /\ client = "hubspot"
    /\ max_retries = DEFAULT_MAX_RETRIES
    /\ rq = RequestIdle
    /\ SearchIdle
    /\ MixpanelIdle
    /\ ar_pc = "search"
    /\ ar_end = "running"
    /\ has_deals = FALSE
    /\ deal_search = "none"
    /\ stage_failure = "none"
    /\ sheet_updates = <<>>
    /\ row_index = 0
    /\ skipped = 0
    /\ clears = <<>>
    /\ start = 0
    /\ writes = <<>>
    /\ reported = <<>>
    /\ sheet_pos = 0
    /\ arr_updates = <<>>
    /\ updated_count = 0
    /\ DbIdle
    /\ CallIdle
    /\ ExportIdle

\* main returns or an exception leaves it
ArrEnd(how) == ar_pc' = "ended" /\ ar_end' = how

\* What search_deals_stage_id can end with: search_objects raises (the
\* RuntimeError of _request), or returns {"results": all_results}, both when
\* the pages are exhausted and when a page answered a non-200 status; in the
\* latter case all_results holds the items of the earlier pages, if any.
DealSearches ==
    {[ended |-> "raised", ret |-> SearchRaise("RuntimeError")]}
        \cup {[ended |-> how, ret |-> SearchReturn(items)] :
                how \in {"exhausted", "aborted"}, items \in {<<>>, <<1>>}}

\* hubspot.search_deals_stage_id(stage_ids) and the test of its result;
\* then row_index = 2 and sheet_updates = [].
ArrSearch ==
    /\ ar_pc = "search"
    /\ \E s \in DealSearches :
          /\ deal_search' = s.ended
          /\ IF s.ret.kind = "raise"
             THEN ArrEnd("exception") /\ UNCHANGED <<has_deals, row_index>>
             ELSE IF NoDeals(s.ret.value)
             THEN ArrEnd("no_deals") /\ UNCHANGED <<has_deals, row_index>>
             ELSE /\ ar_pc' = "stage"
                  /\ has_deals' = (s.ret.value.results # <<>>)
                  /\ row_index' = FIRST_ROW_INDEX
                  /\ UNCHANGED ar_end
    /\ UNCHANGED <<stage_failure, sheet_updates, skipped, clears, start, writes, reported,
                   sheet_pos, arr_updates, updated_count>>
    /\ UNCHANGED <<rqVars, srVars, mxVars, dbVars, cfVars, exVars>>

\* What the staging loop can be given.  get_associations: None (a non-200
\* answer), a payload without "results", or "results": []; an association
\* without "id"; get_line_item_by_id: None (a non-200 answer), a body
\* without "properties", or the line item with its properties.
StageReplies ==
    {[call |-> "get_associations", reply |-> r] : r \in {"none", "no_results", "empty"}}
        \cup {[call |-> "association", reply |-> "no_id"]}
        \cup {[call |-> "get_line_item_by_id", reply |-> r] :
                r \in {"none", "no_properties", "properties"}}

\* The tests of the staging loop on what it was given: the reason of the
\* `return`, "continue", or "row" when the row is staged.
StageTest_LineItemContinues(r) ==
    CASE r.call = "get_associations" /\ r.reply = "none" -> "associations"
      [] r.call = "get_associations" /\ r.reply = "no_results" -> "payload"
      [] r.call = "get_associations" /\ r.reply = "empty" -> "continue"
      [] r.call = "association" -> "continue"
      [] r.call = "get_line_item_by_id" /\ r.reply # "properties" -> "continue"
      [] OTHER -> "row"

StageTest(r) ==
    CASE r.call = "get_associations" /\ r.reply = "none" -> "associations"
      [] r.call = "get_associations" /\ r.reply = "no_results" -> "payload"
      [] r.call = "get_associations" /\ r.reply = "empty" -> "continue"
      [] r.call = "association" -> "continue"
      [] r.call = "get_line_item_by_id" /\ r.reply # "properties" -> "line_item"
      [] OTHER -> "row"

\* The retrieval that gave r failed: the collaborator logged an error and
\* returned None, or the body lacks the key main reads.
FailureOf(r) ==
    CASE r.call = "get_associations" /\ r.reply = "none" -> "associations"
      [] r.call = "get_associations" /\ r.reply = "no_results" -> "payload"
      [] r.call = "get_line_item_by_id" /\ r.reply # "properties" -> "line_item"
      [] OTHER -> "none"

\* stage_failure keeps the first failure met
NoteFailure(r) ==
    stage_failure' = IF stage_failure = "none" THEN FailureOf(r) ELSE stage_failure

\* row_index += 1, after the append
NextRowIndex_Stays(ri) == ri

NextRowIndex(ri) == ri + 1

\* One line item retrieved: its row is staged under row_index.
ArrStageRow ==
    /\ ar_pc = "stage"
    /\ has_deals
    /\ Len(sheet_updates) < MaxRows
    /\ \E r \in StageReplies : StageTest(r) = "row" /\ NoteFailure(r)
    /\ sheet_updates' = Append(sheet_updates, row_index)
    /\ row_index' = NextRowIndex(row_index)
    /\ UNCHANGED <<ar_pc, ar_end, has_deals, deal_search, skipped, clears, start, writes,
                   reported, sheet_pos, arr_updates, updated_count>>
    /\ UNCHANGED <<rqVars, srVars, mxVars, dbVars, cfVars, exVars>>

\* A deal without line items, or an association without id: `continue`.
ArrStageSkip ==
    /\ ar_pc = "stage"
    /\ has_deals
    /\ skipped < MaxSkips
    /\ \E r \in StageReplies : StageTest(r) = "continue" /\ NoteFailure(r)
    /\ skipped' = skipped + 1
    /\ UNCHANGED <<ar_pc, ar_end, has_deals, deal_search, sheet_updates, row_index, clears,
                   start, writes, reported, sheet_pos, arr_updates, updated_count>>
    /\ UNCHANGED <<rqVars, srVars, mxVars, dbVars, cfVars, exVars>>

\* get_associations returned None or a payload without "results", or
\* get_line_item_by_id returned nothing usable: log and return; or _request
\* raised.
ArrStageAbort ==
    /\ ar_pc = "stage"
    /\ has_deals
    /\ \/ \E r \in StageReplies :
             /\ StageTest(r) \notin {"continue", "row"}
             /\ NoteFailure(r)
             /\ ArrEnd(StageTest(r))
       \/ ArrEnd("exception") /\ UNCHANGED stage_failure
    /\ UNCHANGED <<has_deals, deal_search, sheet_updates, row_index, skipped, clears, start,
                   writes, reported, sheet_pos, arr_updates, updated_count>>
    /\ UNCHANGED <<rqVars, srVars, mxVars, dbVars, cfVars, exVars>>

\* The loop over the deals is exhausted: `if sheet_updates:`.
ArrStageEnd ==
    /\ ar_pc = "stage"
    /\ ar_pc' = IF sheet_updates # <<>> THEN "clear" ELSE "read"
    /\ UNCHANGED <<ar_end, has_deals, deal_search, stage_failure, sheet_updates, row_index, skipped, clears, start,
                   writes, reported, sheet_pos, arr_updates, updated_count>>
    /\ UNCHANGED <<rqVars, srVars, mxVars, dbVars, cfVars, exVars>>

\* gsheet.clear_selected_columns(...): True, or False after an HttpError; main
\* does not read the result.  Then total_rows and the first `start`.
ArrClear ==
    /\ ar_pc = "clear"
    /\ \E ok \in BOOLEAN : clears' = Append(clears, ok)
    /\ start' = 0
    /\ ar_pc' = "flush"
    /\ UNCHANGED <<ar_end, has_deals, deal_search, stage_failure, sheet_updates, row_index, skipped, writes, reported,
                   sheet_pos, arr_updates, updated_count>>
    /\ UNCHANGED <<rqVars, srVars, mxVars, dbVars, cfVars, exVars>>

\* One iteration of `for start in range(0, total_rows, BATCH_SIZE)`.
ArrWriteChunk ==
    /\ ar_pc = "flush"
    /\ LET chunk == Chunk(sheet_updates, start) IN
       \E ok \in BOOLEAN :
          /\ writes' = Append(writes, [start |-> start, chunk |-> chunk, ok |-> ok])
          /\ IF ok
             THEN /\ start' = start + BATCH_SIZE
                  /\ ar_pc' = IF start + BATCH_SIZE < Len(sheet_updates)
                              THEN "flush" ELSE "read"
                  /\ UNCHANGED <<ar_end, reported>>
             ELSE /\ reported' = <<FirstRow(start), LastRow(FirstRow(start), chunk)>>
                  /\ ArrEnd("chunk")
                  /\ UNCHANGED start
    /\ UNCHANGED <<has_deals, deal_search, stage_failure, sheet_updates, row_index, skipped, clears, sheet_pos,
                   arr_updates, updated_count>>
    /\ UNCHANGED <<rqVars, srVars, mxVars, dbVars, cfVars, exVars>>

\* gsheet.batch_get_values(...) and the test of what it gave.
ArrRead ==
    /\ ar_pc = "read"
    /\ \E read \in SheetReads :
          IF NoCompanyData(read)
          THEN ArrEnd("no_data")
          ELSE ar_pc' = "companies" /\ UNCHANGED ar_end
    /\ UNCHANGED <<has_deals, deal_search, stage_failure, sheet_updates, row_index, skipped, clears, start, writes,
                   reported, sheet_pos, arr_updates, updated_count>>
    /\ UNCHANGED <<rqVars, srVars, mxVars, dbVars, cfVars, exVars>>

\* One iteration of `for row in value_ranges[0].get("values", [])[1:]`.
ArrCompanyRow ==
    /\ ar_pc = "companies"
    /\ sheet_pos < MaxSheetRows
    /\ sheet_pos' = sheet_pos + 1
    /\ \E row \in SheetRows :
          IF SkipsRow(row)
          THEN UNCHANGED <<ar_pc, ar_end, arr_updates, updated_count>>
          ELSE \E r \in HubSpotRequestResults :
                 LET outcome == UpdateObject(ArrProperties(row), r) IN
                 /\ arr_updates' = Append(arr_updates,
                        [company_id |-> row.company_id, outcome |-> outcome,
                         after_writes |-> Len(writes), row |-> sheet_pos + 1,
                         cells |-> row.cells])
                 /\ CASE outcome = "ok" ->
                            /\ updated_count' = updated_count + 1
                            /\ UNCHANGED <<ar_pc, ar_end>>
                      [] outcome = "none" ->
                            ArrEnd("update") /\ UNCHANGED updated_count
                      [] OTHER ->
                            ArrEnd("exception") /\ UNCHANGED updated_count
    /\ UNCHANGED <<has_deals, deal_search, stage_failure, sheet_updates, row_index, skipped, clears, start, writes,
                   reported>>
    /\ UNCHANGED <<rqVars, srVars, mxVars, dbVars, cfVars, exVars>>

\* The rows of the company sheet are exhausted: the final log line.
ArrCompaniesEnd ==
    /\ ar_pc = "companies"
    /\ ArrEnd("completed")
    /\ UNCHANGED <<has_deals, deal_search, stage_failure, sheet_updates, row_index, skipped, clears, start, writes,
                   reported, sheet_pos, arr_updates, updated_count>>
    /\ UNCHANGED <<rqVars, srVars, mxVars, dbVars, cfVars, exVars>>

NextArr ==
    \/ ArrSearch
    \/ ArrStageRow
    \/ ArrStageSkip
    \/ ArrStageAbort
    \/ ArrStageEnd
    \/ ArrClear
    \/ ArrWriteChunk
    \/ ArrRead
    \/ ArrCompanyRow
    \/ ArrCompaniesEnd

SpecArr == InitArr /\ [][NextArr]_vars

(***************************************************************************)
(* DB_kpi: fetch_kpis and main.                                            *)
(*                                                                         *)
(* A value of the query result is a set: {} for SQL NULL (None in Python), *)
(* {v} for the number v.  ROW_NUMBER() numbers the rows of a partition in  *)
(* timestamp order and leaves the order among equal timestamps open; the   *)
(* order of the groups in the result is open too.                          *)
(***************************************************************************)
SqlNull == {}

LogEntries == "Number of log entries"

BulkEntries == "Number of log entries created via bulk import"

KpiRow(org, name, kpi, value, ts) ==
    [organization_id |-> org, organization_name |-> name, kpi |-> kpi,
     value |-> value, run_timestamp |-> ts]

\* Rows the table can hold in the window: snapshots of one organization at
\* three times, also two at the same time and one under a changed name, a
\* second kpi and a second organization.
KpiRows ==
    {KpiRow("o1", "Acme", LogEntries, 10, 1),
     KpiRow("o1", "Acme", LogEntries, 25, 2),
     KpiRow("o1", "Acme", LogEntries, 40, 3),
     KpiRow("o1", "Acme", LogEntries, 40, 1),
     KpiRow("o1", "Acme", LogEntries, 7, 3),
     KpiRow("o1", "Acme Ltd", LogEntries, 40, 3),
     KpiRow("o1", "Acme", BulkEntries, 7, 1),
     KpiRow("o2", "Bolt", LogEntries, 7, 2)}

\* the sequences over S of length at most n
SeqsUpTo(S, n) == UNION {[1..k -> S] : k \in 0..n}

\* PARTITION BY organization_id, kpi
Partitions(rows) == {<<rows[i].organization_id, rows[i].kpi>> : i \in 1..Len(rows)}

PartitionRows(rows, part) ==
    {i \in 1..Len(rows) : <<rows[i].organization_id, rows[i].kpi>> = part}

\* the rows ROW_NUMBER() OVER (... ORDER BY run_timestamp ASC) can number 1
RankedFirst(rows, part) ==
    {i \in PartitionRows(rows, part) :
        \A j \in PartitionRows(rows, part) :
            rows[i].run_timestamp <= rows[j].run_timestamp}

\* the rows ROW_NUMBER() OVER (... ORDER BY run_timestamp DESC) can number 1
RankedLast(rows, part) ==
    {i \in PartitionRows(rows, part) :
        \A j \in PartitionRows(rows, part) :
            rows[i].run_timestamp >= rows[j].run_timestamp}

\* GROUP BY organization_id, organization_name, kpi
Groups(rows) ==
    {<<rows[i].organization_id, rows[i].organization_name, rows[i].kpi>> :
        i \in 1..Len(rows)}

\* MAX(CASE WHEN rn = 1 THEN value END) over the rows of one group, i being
\* the row of the group's partition numbered 1
MaxAtRankOne(rows, group, i) ==
    IF rows[i].organization_name = group[2] THEN {rows[i].value} ELSE SqlNull

\* last_value - first_value, NULL when either is
Minus(last, first) ==
    IF last = SqlNull \/ first = SqlNull THEN SqlNull
    ELSE {(CHOOSE l \in last : TRUE) - (CHOOSE f \in first : TRUE)}

\* the row of the result for one group
DeltaRow(rows, group, asc, desc) ==
    LET first == MaxAtRankOne(rows, group, asc[<<group[1], group[3]>>])
        last  == MaxAtRankOne(rows, group, desc[<<group[1], group[3]>>])
    IN [organization_id |-> group[1], organization_name |-> group[2], kpi |-> group[3],
        first_value |-> first, last_value |-> last, delta |-> Minus(last, first)]

\* the orders in which a set can be listed
Orderings(S) ==
    {q \in [1..Cardinality(S) -> S] : \A i, j \in DOMAIN q : i # j => q[i] # q[j]}

\* What fetch_kpis can return on the rows.
FetchKpisResults(rows) ==
    {[k \in DOMAIN order |-> DeltaRow(rows, order[k], asc, desc)] :
        order \in Orderings(Groups(rows)),
        asc \in {f \in [Partitions(rows) -> 1..Len(rows)] :
                    \A part \in Partitions(rows) : f[part] \in RankedFirst(rows, part)},
        desc \in {f \in [Partitions(rows) -> 1..Len(rows)] :
                    \A part \in Partitions(rows) : f[part] \in RankedLast(rows, part)}}

\* `org_id in aggregated_data`
HasOrg(data, org) == \E i \in 1..Len(data) : data[i].org_id = org

\* aggregated_data[org_id]["kpis"][kpi_name] = kpi_delta, after the entry of
\* org_id has been created if it was missing
StoreDelta(data, row) ==
    LET d == IF HasOrg(data, row.organization_id) THEN data
             ELSE Append(data, [org_id |-> row.organization_id,
                                organization_name |-> row.organization_name,
                                kpis |-> <<>>])
        i == CHOOSE i \in 1..Len(d) : d[i].org_id = row.organization_id
    IN [d EXCEPT ![i].kpis =
            [k \in DOMAIN d[i].kpis \cup {row.kpi} |->
                IF k = row.kpi THEN row.delta ELSE d[i].kpis[k]]]

\* the property each kpi is written to
KpiProperty(kpi) ==
    CASE kpi = LogEntries -> "number_log_entries_past_30_days"
      [] kpi = BulkEntries -> "number_bulk_entries_past_30_days"
      [] OTHER -> None

\* properties_to_update of one organization
KpiProperties(kpis) ==
    [p \in {KpiProperty(k) : k \in {k \in DOMAIN kpis : KpiProperty(k) # None}} |->
        kpis[CHOOSE k \in DOMAIN kpis : KpiProperty(k) = p]]

InitDb ==
    /\ client = "hubspot"
    /\ max_retries = DEFAULT_MAX_RETRIES
    /\ rq = RequestIdle
    /\ SearchIdle
    /\ MixpanelIdle
    /\ ArrIdle
    /\ CallIdle
    /\ ExportIdle
    /\ db_pc = "fetch"
    /\ db_end = "running"
    /\ kpi_rows \in SeqsUpTo(KpiRows, MaxKpiRows)
    /\ db_result = <<>>
    /\ db_row = 0
    /\ aggregated_data = <<>>
    /\ db_org = 0
    /\ db_searches = <<>>
    /\ db_updates = <<>>

\* result = fetch_kpis(); aggregated_data = {}
DbFetchKpis ==
    /\ db_pc = "fetch"
    /\ db_result' \in FetchKpisResults(kpi_rows)
    /\ db_pc' = "aggregate"
    /\ UNCHANGED <<db_end, kpi_rows, db_row, aggregated_data, db_org, db_searches,
                   db_updates>>
    /\ UNCHANGED <<rqVars, srVars, mxVars, arVars, cfVars, exVars>>

\* One iteration of `for row in result`.
DbStoreRow ==
    /\ db_pc = "aggregate"
    /\ db_row < Len(db_result)
    /\ db_row' = db_row + 1
    /\ aggregated_data' = StoreDelta(aggregated_data, db_result[db_row + 1])
    /\ UNCHANGED <<db_pc, db_end, kpi_rows, db_result, db_org, db_searches, db_updates>>
    /\ UNCHANGED <<rqVars, srVars, mxVars, arVars, cfVars, exVars>>

\* The first loop is exhausted; the second starts, or main returns.
DbStoreEnd ==
    /\ db_pc = "aggregate"
    /\ db_row = Len(db_result)
    /\ IF aggregated_data = <<>>
       THEN db_pc' = "ended" /\ db_end' = "completed"
       ELSE db_pc' = "push" /\ UNCHANGED db_end
    /\ UNCHANGED <<kpi_rows, db_result, db_row, aggregated_data, db_org, db_searches,
                   db_updates>>
    /\ UNCHANGED <<rqVars, srVars, mxVars, arVars, cfVars, exVars>>

\* the entry the second loop is at
DbEntry == aggregated_data[db_org + 1]

\* the second loop moves to the next entry, or main returns after the last
DbMoveOn ==
    /\ db_org' = db_org + 1
    /\ IF db_org + 1 = Len(aggregated_data)
       THEN db_pc' = "ended" /\ db_end' = "completed"
       ELSE UNCHANGED <<db_pc, db_end>>

\* One iteration of `for org_id, data in aggregated_data.items()` whose
\* search_company call raises: the exception leaves main.
DbPushSearchRaises ==
    /\ db_pc = "push"
    /\ db_searches' = Append(db_searches, [org_id |-> DbEntry.org_id, raised |-> TRUE,
                                           company |-> None, found |-> FALSE])
    /\ db_org' = db_org + 1
    /\ db_pc' = "ended"
    /\ db_end' = "exception"
    /\ UNCHANGED <<kpi_rows, db_result, db_row, aggregated_data, db_updates>>
    /\ UNCHANGED <<rqVars, srVars, mxVars, arVars, cfVars, exVars>>

\* One iteration whose search finds no company: print and continue.
DbPushNoCompany ==
    /\ db_pc = "push"
    /\ db_searches' = Append(db_searches, [org_id |-> DbEntry.org_id, raised |-> FALSE,
                                           company |-> None, found |-> FALSE])
    /\ DbMoveOn
    /\ UNCHANGED <<kpi_rows, db_result, db_row, aggregated_data, db_updates>>
    /\ UNCHANGED <<rqVars, srVars, mxVars, arVars, cfVars, exVars>>

\* One iteration whose search finds a company: the update is sent and
\* "Updated company ..." printed whatever it returns; an exception of the
\* update leaves main.
DbPushUpdate ==
    /\ db_pc = "push"
    /\ \E ret \in SearchCompanyReturns(DbEntry.org_id), r \in HubSpotRequestResults :
          /\ ret.value.results # <<>>
          /\ LET props   == KpiProperties(DbEntry.kpis)
                 outcome == UpdateObject(props, r)
             IN /\ db_searches' = Append(db_searches,
                       [org_id |-> DbEntry.org_id, raised |-> FALSE,
                        company |-> FirstId(ret), found |-> TRUE])
                /\ db_updates' = Append(db_updates,
                       [org_id |-> DbEntry.org_id, company |-> FirstId(ret),
                        properties |-> props, outcome |-> outcome,
                        reported |-> IF outcome = "raised" THEN "failed" ELSE "updated"])
                /\ IF outcome = "raised"
                   THEN /\ db_org' = db_org + 1
                        /\ db_pc' = "ended"
                        /\ db_end' = "exception"
                   ELSE DbMoveOn
    /\ UNCHANGED <<kpi_rows, db_result, db_row, aggregated_data>>
    /\ UNCHANGED <<rqVars, srVars, mxVars, arVars, cfVars, exVars>>

NextDb ==
    \/ DbFetchKpis
    \/ DbStoreRow
    \/ DbStoreEnd
    \/ DbPushSearchRaises
    \/ DbPushNoCompany
    \/ DbPushUpdate

SpecDb == InitDb /\ [][NextDb]_vars

(***************************************************************************)
(* One call of a public operation of a connector, with the arguments and   *)
(* credentials a caller can pass: the constructor of MixpanelConnector,    *)
(* export_events of a constructed MixpanelConnector, and search_objects,   *)
(* search_company, update_object and get_object of a HubSpotConnector,     *)
(* whose ACCESS_TOKEN is read from the environment when the module is      *)
(* loaded.                                                                 *)
(***************************************************************************)
SearchOps == {"search_objects", "search_company"}

HubSpotOps == SearchOps \cup {"update_object", "get_object"}

\* os.getenv(..., "").strip(): "" when the variable is not set
Credentials == {"", "x"}

\* the argument that must not be empty: filter_groups, filters, properties
\* or event_names
Arguments == {<<>>, <<"a">>, <<"a", "b">>}

Calls ==
    {Call("MixpanelConnector", "", u, sc, pr, <<>>) :
        u \in Credentials, sc \in Credentials, pr \in Credentials}
        \cup {Call("export_events", "", "x", "x", "x", a) : a \in Arguments}
        \cup {Call(op, t, "", "", "", a) :
                op \in HubSpotOps, t \in Credentials, a \in Arguments}

\* `if not username or not secret or not project_id`
MissingCredential(c) ==
    ~Truthy(c.username) \/ ~Truthy(c.secret) \/ ~Truthy(c.project_id)

\* `if not filter_groups`, `if not filters`, `if not properties`,
\* `if not event_list`; get_object takes its `properties` empty or not
EmptyArgument(c) == c.op # "get_object" /\ c.arg = <<>>

\* export_events holds a yield: calling it only makes the generator, and its
\* body, the test of event_names included, runs when the first item is asked.
IsGenerator(op) == op = "export_events"

InitCall ==
    /\ client = "hubspot"
    /\ max_retries = DEFAULT_MAX_RETRIES
    /\ rq = RequestIdle
    /\ SearchIdle
    /\ MixpanelIdle
    /\ ArrIdle
    /\ DbIdle
    /\ ExportIdle
    /\ cf_call \in Calls
    /\ cf_pc = "call"
    /\ cf_sent = 0
    /\ cf_exc = None
    /\ cf_met = <<>>
    /\ cf_ret = NoReturn

\* the first statements of the operation: the test of its arguments
CallBody ==
    IF cf_call.op = "MixpanelConnector"
    THEN IF MissingCredential(cf_call)
         THEN cf_pc' = "raised" /\ cf_exc' = "ValueError"
         ELSE cf_pc' = "returned" /\ UNCHANGED cf_exc
    ELSE IF EmptyArgument(cf_call)
         THEN cf_pc' = "raised" /\ cf_exc' = "ValueError"
         ELSE cf_pc' = "request" /\ UNCHANGED cf_exc

\* The operation is called.
CallEnter ==
    /\ cf_pc = "call"
    /\ IF IsGenerator(cf_call.op)
       THEN cf_pc' = "generator" /\ UNCHANGED cf_exc
       ELSE CallBody
    /\ UNCHANGED <<cf_call, cf_sent, cf_met, cf_ret>>
    /\ UNCHANGED <<rqVars, srVars, mxVars, arVars, dbVars, exVars>>

\* The caller asks the generator for its first item.
CallFirstItem ==
    /\ cf_pc = "generator"
    /\ CallBody
    /\ UNCHANGED <<cf_call, cf_sent, cf_met, cf_ret>>
    /\ UNCHANGED <<rqVars, srVars, mxVars, arVars, dbVars, exVars>>

\* The statements of an operation after its self._request(...) call, on
\* the result r of that call.  update_object and get_object: resp.json()
\* and an info log on status 200, else an error log and None.
\* search_objects (search_company returns its value): an error log and
\* `break` on a status other than 200, so that {"results": all_results}
\* is returned with the pages taken before; else the page is taken.
\* export_events goes on to read the response as a stream.  An exception
\* of _request leaves the operation at once.
OperationResult_TrustsResponse(op, r) ==
    IF r.kind = "raise" THEN NoReturn
    ELSE IF op \in SearchOps
    THEN [status |-> r.resp.status, value |-> "results", log |-> "info",
          aborted |-> FALSE]
    ELSE IF op = "export_events"
    THEN [status |-> r.resp.status, value |-> "stream", log |-> "none",
          aborted |-> FALSE]
    ELSE [status |-> r.resp.status, value |-> "json", log |-> "info",
          aborted |-> FALSE]

OperationResult(op, r) ==
    IF r.kind = "raise" THEN NoReturn
    ELSE IF op \in SearchOps
    THEN IF r.resp.status # 200
         THEN [status |-> r.resp.status, value |-> "results", log |-> "error",
               aborted |-> TRUE]
         ELSE [status |-> r.resp.status, value |-> "results", log |-> "info",
               aborted |-> FALSE]
    ELSE IF op = "export_events"
    THEN [status |-> r.resp.status, value |-> "stream", log |-> "none",
          aborted |-> FALSE]
    ELSE IF r.resp.status = 200
         THEN [status |-> r.resp.status, value |-> "json", log |-> "info",
               aborted |-> FALSE]
         ELSE [status |-> r.resp.status, value |-> "None", log |-> "error",
               aborted |-> FALSE]

\* The operation's first self._request(...) call, run to its end, and the
\* statements that take its result.  The HubSpot request is sent with
\* DEFAULT_HEADERS whatever ACCESS_TOKEN is.
CallRequest ==
    /\ cf_pc = "request"
    /\ \E run \in IF cf_call.op \in HubSpotOps
                  THEN HubSpotRequestRuns ELSE MixpanelRequestRuns :
          /\ cf_sent' = cf_sent + run.end.sent
          /\ cf_pc' = IF run.end.kind = "raise" THEN "raised" ELSE "returned"
          /\ cf_exc' = run.end.exc
          /\ cf_met' = run.met
          /\ cf_ret' = OperationResult(cf_call.op, run.result)
    /\ UNCHANGED cf_call
    /\ UNCHANGED <<rqVars, srVars, mxVars, arVars, dbVars, exVars>>

NextCall == CallEnter \/ CallFirstItem \/ CallRequest

SpecCall == InitCall /\ [][NextCall]_vars

(***************************************************************************)
(* The line loop of MixpanelConnector.export_events, after self._request   *)
(* has returned the streamed response.                                     *)
(*                                                                         *)
(* A line is the sequence of the pieces of its bytes: "{", "}", the digit  *)
(* "1", the space " " and "0xFF", a byte that no UTF-8 text holds.  The    *)
(* empty sequence is an empty line.                                        *)
(***************************************************************************)
InvalidByte == "0xFF"

ResponseLines ==
    {<<>>, <<"{", "}">>, <<"1">>, <<" ", "1">>, <<"1", "1">>, <<"1", " ", "1">>,
     <<"{">>, <<" ">>, <<InvalidByte>>, <<"{", "}", InvalidByte>>}

\* line.decode("utf-8") raises UnicodeDecodeError on a byte that is not UTF-8
DecodeRaises(line) == \E i \in 1..Len(line) : line[i] = InvalidByte

\* the text without its leading and trailing whitespace
RECURSIVE StripLeft(_)
StripLeft(text) ==
    IF text # <<>> /\ text[1] = " " THEN StripLeft(Tail(text)) ELSE text

RECURSIVE StripRight(_)
StripRight(text) ==
    IF text # <<>> /\ text[Len(text)] = " "
    THEN StripRight(SubSeq(text, 1, Len(text) - 1))
    ELSE text

\* the number a run of digits denotes
RECURSIVE NumberOf(_)
NumberOf(digits) ==
    IF digits = <<>> THEN 0
    ELSE 10 * NumberOf(SubSeq(digits, 1, Len(digits) - 1)) + 1

\* json.loads(text): the value of the one JSON document the text holds
\* between optional whitespace, or JSONDecodeError.
JsonLoads(text) ==
    LET doc == StripRight(StripLeft(text)) IN
    IF doc = <<"{", "}">>
    THEN [ok |-> TRUE, value |-> [type |-> "dict", number |-> 0]]
    ELSE IF doc # <<>> /\ \A i \in 1..Len(doc) : doc[i] = "1"
    THEN [ok |-> TRUE, value |-> [type |-> "int", number |-> NumberOf(doc)]]
    ELSE [ok |-> FALSE, value |-> [type |-> "none", number |-> 0]]

InitExport ==
    /\ client = "mixpanel"
    /\ max_retries = DEFAULT_MAX_RETRIES
    /\ rq = RequestIdle
    /\ SearchIdle
    /\ MixpanelIdle
    /\ ArrIdle
    /\ DbIdle
    /\ CallIdle
    /\ ex_lines \in SeqsUpTo(ResponseLines, MaxLines)
    /\ ex_pos = 0
    /\ ex_yielded = <<>>
    /\ ex_pc = "lines"

\* One iteration of `for line in resp.iter_lines()`.
ExportLine ==
    /\ ex_pc = "lines"
    /\ ex_pos < Len(ex_lines)
    /\ ex_pos' = ex_pos + 1
    /\ LET line == ex_lines[ex_pos + 1] IN
       IF line = <<>>
       THEN UNCHANGED <<ex_yielded, ex_pc>>
       ELSE IF DecodeRaises(line)
       THEN ex_pc' = "raised" /\ UNCHANGED ex_yielded
       ELSE IF JsonLoads(line).ok
       THEN ex_yielded' = Append(ex_yielded, JsonLoads(line).value) /\ UNCHANGED ex_pc
       ELSE UNCHANGED <<ex_yielded, ex_pc>>
    /\ UNCHANGED ex_lines
    /\ UNCHANGED <<rqVars, srVars, mxVars, arVars, dbVars, cfVars>>

\* resp.iter_lines() is exhausted: the generator returns.
ExportExhausted ==
    /\ ex_pc = "lines"
    /\ ex_pos = Len(ex_lines)
    /\ ex_pc' = "exhausted"
    /\ UNCHANGED <<ex_lines, ex_pos, ex_yielded>>
    /\ UNCHANGED <<rqVars, srVars, mxVars, arVars, dbVars, cfVars>>

NextExport == ExportLine \/ ExportExhausted

SpecExport == InitExport /\ [][NextExport]_vars

(***************************************************************************)
(* Properties of _request, checked under SpecRequest.                      *)
(***************************************************************************)
RequestDone == rq.pc \in {"returned", "raised"}

LastUpstream == rq.upstream[Len(rq.upstream)]

IsRateLimit(o) == o.kind = "resp" /\ o.status = 429

\* an HTTP error status other than 429
IsOtherHttpError(o) ==
    o.kind = "resp" /\ o.status >= 400 /\ o.status <= 599 /\ o.status # 429

\* base ** a as the claims state it, from the constructor's default base
ExponentialDelay(a) == <<Pow(BACKOFF_BASE_NUM, a), Pow(BACKOFF_BASE_DEN, a)>>

\* C5: one _request call of either connector issues at most max_retries + 1
\* HTTP requests whatever mix of 429 responses and transport failures it
\* meets, sleeps at most max_retries times and never in the final attempt,
\* can always take its next step while it is running, and ends having
\* returned a response or raised.
C5_AttemptBudget ==
    /\ rq.sent <= max_retries + 1
    /\ Len(rq.slept) <= max_retries
    /\ \A i \in 1..Len(rq.slept) : rq.slept[i].attempt < max_retries
    /\ rq.pc \in {"attempt", "returned", "raised"}
    /\ rq.pc = "attempt" =>
          /\ rq.attempt <= max_retries
          /\ rq.sent = rq.attempt
          /\ Len(rq.slept) = rq.sent
          /\ ENABLED NextRequest
    /\ RequestDone =>
          /\ rq.result.kind \in {"response", "raise"}
          /\ Len(rq.slept) = rq.sent - 1
          /\ ~ENABLED NextRequest

\* C5 witness: with the default budget, a call that used all four attempts on
\* a mix of 429 responses and transport failures, slept three times and ended.
C5_Witness ==
    /\ max_retries = DEFAULT_MAX_RETRIES
    /\ RequestDone
    /\ rq.sent = 4
    /\ Len(rq.slept) = 3
    /\ \E i, j \in 1..Len(rq.upstream) :
          IsRateLimit(rq.upstream[i]) /\ rq.upstream[j].kind = "exc"

\* The attempt that slept[i] was made in met upstream[slept[i].attempt + 1].
SleepCause(i) == rq.upstream[rq.slept[i].attempt + 1]

SleepsIndexedByAttempt ==
    \A i \in 1..Len(rq.slept) : rq.slept[i].attempt = i - 1

\* Successive delays that did not come from a header strictly increase.
BackoffStrictlyIncreasing ==
    \A i, j \in 1..Len(rq.slept) :
        (/\ i < j
         /\ ~(IsRateLimit(SleepCause(i)) /\ Truthy(SleepCause(i).retry_after))
         /\ ~(IsRateLimit(SleepCause(j)) /\ Truthy(SleepCause(j).retry_after)))
            => DelayLess(rq.slept[i].delay, rq.slept[j].delay)

\* C6 as stated: every sleep after a 429 lasts the Retry-After header's value
\* whenever the header is present, and base^attempt otherwise; a sleep after
\* a transport failure lasts base^attempt; backoff delays strictly increase.
C6_AsStated ==
    /\ SleepsIndexedByAttempt
    /\ \A i \in 1..Len(rq.slept) :
          LET o == SleepCause(i) IN
          IF IsRateLimit(o) /\ o.retry_after # None
          THEN rq.slept[i].delay = FloatOf(o.retry_after)
          ELSE rq.slept[i].delay = ExponentialDelay(i - 1)
    /\ BackoffStrictlyIncreasing

\* C6 (amended): every sleep after a 429 lasts the Retry-After header's value
\* when the header is present and not empty, and base^attempt when it is
\* absent or empty, attempt being the 0-based index of the failed attempt; a
\* header that is no number, or a negative one, makes the call raise
\* ValueError without sleeping; a sleep after a transport failure lasts
\* base^attempt; delays that do not come from a header strictly increase
\* within one call.
C6_RetryDelay ==
    /\ SleepsIndexedByAttempt
    /\ \A i \in 1..Len(rq.slept) :
          LET o == SleepCause(i) IN
          /\ IsRateLimit(o) \/ o.kind = "exc"
          /\ IF IsRateLimit(o) /\ o.retry_after \notin {None, ""}
             THEN /\ rq.slept[i].delay = FloatOf(o.retry_after)
                  /\ o.retry_after \in {"0", "2"}
             ELSE rq.slept[i].delay = ExponentialDelay(i - 1)
    /\ (rq.result.exc = "ValueError") =>
          /\ IsRateLimit(LastUpstream)
          /\ LastUpstream.retry_after \notin {None, "", "0", "2"}
          /\ Len(rq.upstream) <= max_retries
          /\ Len(rq.slept) = Len(rq.upstream) - 1
    /\ (/\ rq.upstream # <<>>
        /\ IsRateLimit(LastUpstream)
        /\ Len(rq.upstream) <= max_retries
        /\ LastUpstream.retry_after \notin {None, "", "0", "2"}) =>
          rq.result.exc = "ValueError"
    /\ BackoffStrictlyIncreasing

\* C6 witness: a call that slept 2 s on "Retry-After: 2", then 1.5 s after a
\* transport failure in attempt 1, then 2.25 s after a 429 without header.
C6_Witness ==
    /\ Len(rq.slept) = 3
    /\ rq.upstream[1] = Response(429, "2") /\ rq.slept[1].delay = <<2, 1>>
    /\ rq.upstream[2].kind = "exc" /\ rq.slept[2].delay = <<3, 2>>
    /\ rq.upstream[3] = Response(429, None) /\ rq.slept[3].delay = <<9, 4>>

\* C7: when an attempt of HubSpotConnector._request meets an HTTP error status
\* other than 429, the call returns that very response at once: it has not
\* raised, it issues no further request and does not sleep after it; as the
\* first response it is returned after exactly one request and no sleep.
C7_HubSpotReturnsHttpError ==
    (client = "hubspot" /\ rq.upstream # <<>> /\ IsOtherHttpError(LastUpstream)) =>
        /\ rq.pc = "returned"
        /\ rq.result = Returned(LastUpstream)
        /\ rq.sent = Len(rq.upstream)
        /\ Len(rq.slept) = Len(rq.upstream) - 1
        /\ ~ENABLED NextRequest
        /\ IsOtherHttpError(rq.upstream[1]) => (rq.sent = 1 /\ rq.slept = <<>>)

\* C7 witness: HubSpot's _request handed back a 500 after one request.
C7_Witness ==
    /\ client = "hubspot"
    /\ rq.pc = "returned"
    /\ rq.result.resp.status = 500
    /\ rq.sent = 1
    /\ rq.slept = <<>>

\* C8 as stated: MixpanelConnector._request returns a non-retryable HTTP
\* error status to the caller as a response and does not raise.
C8_AsStated ==
    (client = "mixpanel" /\ rq.upstream # <<>> /\ IsOtherHttpError(LastUpstream)) =>
        /\ rq.pc = "returned"
        /\ rq.result = Returned(LastUpstream)

\* C8 (amended): MixpanelConnector._request raises a non-retryable HTTP error
\* status (4xx other than 429, or 5xx), and a 429 met in the final attempt, to
\* the caller as requests.HTTPError holding that response, without retrying
\* or sleeping after it; it returns only responses whose status is no error.
C8_MixpanelRaisesHttpError ==
    client = "mixpanel" =>
        /\ (/\ rq.upstream # <<>>
            /\ \/ IsOtherHttpError(LastUpstream)
               \/ IsRateLimit(LastUpstream) /\ Len(rq.upstream) = max_retries + 1) =>
              /\ rq.pc = "raised"
              /\ rq.result = Raised("HTTPError", None, LastUpstream)
              /\ rq.sent = Len(rq.upstream)
              /\ Len(rq.slept) = Len(rq.upstream) - 1
              /\ ~ENABLED NextRequest
        /\ rq.pc = "returned" =>
              /\ rq.result.resp = LastUpstream
              /\ rq.result.resp.status < 400

\* C8 witness: Mixpanel's _request raised HTTPError for a 404 it met in its
\* second attempt.
C8_Witness ==
    /\ client = "mixpanel"
    /\ rq.pc = "raised"
    /\ rq.result.exc = "HTTPError"
    /\ rq.result.resp.status = 404
    /\ rq.sent = 2

\* C9: a _request call whose final permitted attempt ends in a transport
\* failure raises RuntimeError carrying that attempt's exception, and a
\* RuntimeError is raised only then: after max_retries + 1 attempts of which
\* the last met a transport failure and every earlier one a 429 or a
\* transport failure.
C9_TerminalRuntimeError ==
    /\ (Len(rq.upstream) = max_retries + 1 /\ LastUpstream.kind = "exc") =>
          /\ rq.pc = "raised"
          /\ rq.result.exc = "RuntimeError"
          /\ rq.result.carries = LastUpstream.exc
    /\ rq.result.exc = "RuntimeError" =>
          /\ rq.pc = "raised"
          /\ Len(rq.upstream) = max_retries + 1
          /\ LastUpstream.kind = "exc"
          /\ rq.result.carries = LastUpstream.exc
          /\ \A i \in 1..(Len(rq.upstream) - 1) :
                IsRateLimit(rq.upstream[i]) \/ rq.upstream[i].kind = "exc"

\* C9 witness: the budget ran out on a Timeout after an earlier
\* ConnectionError and a 429; the RuntimeError carries the Timeout.
C9_Witness ==
    /\ rq.pc = "raised"
    /\ rq.result.exc = "RuntimeError"
    /\ rq.result.carries = "Timeout"
    /\ \E i, j \in 1..(Len(rq.upstream) - 1) :
          rq.upstream[i].exc = "ConnectionError" /\ IsRateLimit(rq.upstream[j])

(***************************************************************************)
(* Properties of search_objects, checked under SpecSearch.                 *)
(***************************************************************************)
IsOkPage(f) == f.result.kind = "response" /\ f.result.resp.status = 200

IsFailedPage(f) == f.result.kind = "response" /\ f.result.resp.status # 200

\* the results of the pages f[1], f[2], ... one after the other
RECURSIVE PagesInOrder(_)
PagesInOrder(f) ==
    IF f = <<>> THEN <<>> ELSE f[1].data.results \o PagesInOrder(Tail(f))

\* search_objects broke out of its loop on a response that was not a 200
SearchAborted ==
    sr_pc = "returned" /\ fetched # <<>> /\ IsFailedPage(fetched[Len(fetched)])

\* search_objects ran until a 200 page without cursor
SearchExhausted ==
    sr_pc = "returned" /\ \A i \in 1..Len(fetched) : IsOkPage(fetched[i])

\* C2: when a page of search_objects meets a non-200 response the call
\* aborts, and what it returns is not what a fully exhausted search of the
\* items accumulated so far returns.
C2_AbortIsDistinguishable ==
    /\ (fetched # <<>> /\ IsFailedPage(fetched[Len(fetched)])) => sr_pc = "returned"
    /\ SearchAborted => sr_ret # SearchReturn(PagesInOrder(fetched))

\* C3: when every page of search_objects is a 200, the call returns exactly
\* the pages' results one after the other in the order received: nothing
\* dropped, duplicated or reordered.
C3_ResultsInPageOrder ==
    /\ SearchExhausted =>
          /\ sr_ret = SearchReturn(PagesInOrder(fetched))
          /\ sr_ret.value.results = ItemsFrom(0, Served(fetched))
    /\ (\A i \in 1..Len(fetched) : IsOkPage(fetched[i])) =>
          all_results = PagesInOrder(fetched)

\* C3 witness: three 200 pages of 2, 2 and 1 items, cursors on the first two
\* and none on the third, returned as the five items in page order.
C3_Witness ==
    /\ SearchExhausted
    /\ Len(fetched) = 3
    /\ Len(fetched[1].data.results) = 2
    /\ Len(fetched[2].data.results) = 2
    /\ Len(fetched[3].data.results) = 1
    /\ sr_ret.value.results = <<1, 2, 3, 4, 5>>

\* The cursor protocol as a state predicate.
CursorProtocol ==
    /\ Len(posted) = Len(fetched)
    /\ posted # <<>> => posted[1] = None
    /\ \A i \in 2..Len(posted) :
          /\ IsOkPage(fetched[i - 1])
          /\ posted[i] = fetched[i - 1].data.paging.after
          /\ fetched[i - 1].data.paging.has_paging
          /\ fetched[i - 1].data.paging.has_next
          /\ posted[i] \notin {None, ""}
    /\ \A i \in 1..Len(fetched) :
          (IsOkPage(fetched[i]) /\ PagingAfter(fetched[i].data) = None) =>
              (Len(posted) = i /\ sr_pc = "returned")
    /\ sr_pc \in {"returned", "raised"} => ~ENABLED NextSearch

\* C4: the first payload of search_objects carries no `after`, every later
\* payload carries exactly the cursor of the response before it, no payload
\* is posted after a response without cursor, and the call ends once the
\* server (which holds finitely many pages) has sent such a response.
C4_CursorProtocol ==
    /\ []CursorProtocol
    /\ <>(sr_pc \in {"returned", "raised"})

\* C4 witness: three payloads were posted, the second with the first
\* response's cursor "t1" and the third with the second response's "t2",
\* and the third response carried no cursor.
C4_Witness ==
    /\ sr_pc = "returned"
    /\ posted = <<None, "t1", "t2">>
    /\ \A i \in 1..3 : IsOkPage(fetched[i])
    /\ PagingAfter(fetched[3].data) = None

(***************************************************************************)
(* Properties of the event loop of mixpanel_kpi.main, checked under        *)
(* SpecAggregate, and of the whole run, checked under SpecMixpanel.        *)
(***************************************************************************)
\* positions in the stream of the events of one name
NamePositions(n) == {i \in 1..Len(consumed) : consumed[i].event = n}

\* the event's organization_id is neither None nor "" nor "UNKNOWN"
Attributable(e) == e.organization_id \notin {None, "", "UNKNOWN"}

\* no earlier event of the same name carries the same $insert_id
FirstOfItsId(i) ==
    \A j \in 1..(i - 1) :
        consumed[j].event = consumed[i].event =>
            consumed[j].insert_id # consumed[i].insert_id

RECURSIVE SumCounts(_)
SumCounts(entries) ==
    IF entries = <<>> THEN 0 ELSE entries[1].count + SumCounts(Tail(entries))

\* C1 as stated: for every tracked event name the bucket counts add up to
\* the number of distinct $insert_id values among the name's attributable
\* events plus the number of its attributable events without $insert_id.
C1_AsStated ==
    \A n \in TrackedNames :
        SumCounts(aggregated[n]) =
            Cardinality({consumed[i].insert_id :
                            i \in {j \in NamePositions(n) :
                                     /\ Attributable(consumed[j])
                                     /\ consumed[j].insert_id # None}})
            + Cardinality({i \in NamePositions(n) :
                             /\ Attributable(consumed[i])
                             /\ consumed[i].insert_id = None})

\* C1 (amended): for every tracked event name the bucket counts add up to
\* the number of distinct non-empty $insert_id values whose first event of
\* that name is attributable, plus the number of the name's attributable
\* events whose $insert_id is missing or empty.
C1_DedupCount ==
    \A n \in TrackedNames :
        SumCounts(aggregated[n]) =
            Cardinality({i \in NamePositions(n) :
                            /\ consumed[i].insert_id \notin {None, ""}
                            /\ FirstOfItsId(i)
                            /\ Attributable(consumed[i])})
            + Cardinality({i \in NamePositions(n) :
                             /\ consumed[i].insert_id \in {None, ""}
                             /\ Attributable(consumed[i])})

\* C1 witness: three "api-call" events, two of them with the same
\* $insert_id and one without any, counted as 2.
C1_Witness ==
    /\ Len(consumed) = 3
    /\ \A i \in 1..3 : consumed[i].event = "api-call" /\ Attributable(consumed[i])
    /\ consumed[1].insert_id = "a"
    /\ consumed[2].insert_id = "a"
    /\ consumed[3].insert_id = None
    /\ SumCounts(aggregated["api-call"]) = 2

\* the organization ids get_property_values returned
PreSeeded == {org_ids[i] : i \in 1..Len(org_ids)}

\* no event of name n that the loop counted belongs to organization o
NoSurvivor(n, o) ==
    \A i \in NamePositions(n) :
        ~(/\ Attributable(consumed[i])
          /\ Str(consumed[i].organization_id) = o
          /\ (consumed[i].insert_id \in {None, ""} \/ FirstOfItsId(i)))

FlushedPairs(n, o) == {i \in 1..Len(flushed) : flushed[i].event = n /\ flushed[i].org_id = o}

\* C10: every pre-seeded organization has a bucket for every tracked event
\* name from initialization on; when the flush reaches such a pair that no
\* surviving event matched, every property of its payload is an explicit 0,
\* and if the organization resolves to a company that payload is sent in an
\* update; at the end of the run every such pair has been flushed once.
C10_ExplicitZero ==
    \A n \in TrackedNames, o \in PreSeeded :
        /\ HasBucket(aggregated[n], o)
        /\ \A i \in FlushedPairs(n, o) :
              /\ NoSurvivor(n, o) =>
                    /\ DOMAIN flushed[i].properties # {}
                    /\ \A p \in DOMAIN flushed[i].properties :
                          flushed[i].properties[p] = 0
              /\ Truthy(flushed[i].company) =>
                    \E u \in 1..Len(updates) :
                        /\ updates[u].org_id = o
                        /\ updates[u].company = flushed[i].company
                        /\ updates[u].properties = flushed[i].properties
        /\ mx_pc = "done" => Cardinality(FlushedPairs(n, o)) = 1

\* C10 witness: a finished run in which a pre-seeded organization without
\* any event resolved to a company and was sent a 0 for both event names.
C10_Witness ==
    /\ mx_pc = "done"
    /\ "o2" \in PreSeeded
    /\ \A n \in TrackedNames :
          /\ NoSurvivor(n, "o2")
          /\ \E u \in 1..Len(updates) :
                /\ updates[u].org_id = "o2"
                /\ updates[u].company = "c2"
                /\ \E p \in DOMAIN updates[u].properties :
                      updates[u].properties[p] = 0
    /\ \E u \in 1..Len(updates) :
          updates[u].properties = [p \in {"api_calls_past_90_days"} |-> 0]
    /\ \E u \in 1..Len(updates) :
          updates[u].properties = [p \in {"dashboard_views_past_90_days"} |-> 0]

(***************************************************************************)
(* Properties of the keyword counts, checked under SpecPageView.           *)
(***************************************************************************)
\* kw occurs in url as a run of consecutive pieces
HasKeyword(url, kw) ==
    \E a \in 0..Len(url) : \E b \in a..Len(url) : SubSeq(url, a + 1, b) = kw

\* the urls of the events of name n that the loop counted for organization o
\* and that contain kw
Samples(n, o, kw) ==
    {i \in NamePositions(n) :
        /\ Attributable(consumed[i])
        /\ Str(consumed[i].organization_id) = o
        /\ (consumed[i].insert_id \in {None, ""} \/ FirstOfItsId(i))
        /\ consumed[i].url # NoUrl
        /\ HasKeyword(consumed[i].url, kw)}

\* the rules of the event name n mapped to keyword rules
RulesOf(n) == (CHOOSE m \in {EventMap[i] : i \in 1..Len(EventMap)} : m.event = n).rules

\* Rule tables the mapping of "page-view" may be extended to: the one of the
\* source, and that one with a second rule whose keyword occurs in the same
\* urls or in others.
RuleTables ==
    {RulesOf("page-view"),
     Append(RulesOf("page-view"),
            [keyword |-> <<"/app/">>, property |-> "app_views"]),
     Append(RulesOf("page-view"),
            [keyword |-> <<"billing">>, property |-> "billing_views"]),
     <<[keyword |-> <<"/app/", "dashboard">>, property |-> "app_dashboard_views"]>>
        \o RulesOf("page-view")}

\* C11: in the payload flushed for a "page-view" bucket the value of each
\* rule's property is the number of the bucket's urls that contain the rule's
\* keyword as a case-sensitive substring, and the payload has exactly the
\* rules' properties; on every bucket of the run each rule of a table of
\* several rules counts every url containing its keyword, whether or not
\* another rule counts it too.
C11_KeywordCounts ==
    /\ \A f \in 1..Len(flushed) :
          flushed[f].event = "page-view" =>
             /\ DOMAIN flushed[f].properties =
                   {RulesOf("page-view")[r].property : r \in 1..Len(RulesOf("page-view"))}
             /\ \A r \in 1..Len(RulesOf("page-view")) :
                   flushed[f].properties[RulesOf("page-view")[r].property] =
                      Cardinality(Samples("page-view", flushed[f].org_id,
                                          RulesOf("page-view")[r].keyword))
    /\ mx_pc \in {"stream", "flush", "done"} =>
          \A b \in 1..Len(aggregated["page-view"]), table \in RuleTables :
             LET out == PropertyUpdates([event |-> "page-view", direct |-> FALSE,
                                         property |-> None, rules |-> table],
                                        aggregated["page-view"][b])
             IN \A r \in 1..Len(table) :
                   out[table[r].property] =
                      Cardinality(Samples("page-view", aggregated["page-view"][b].org_id,
                                          table[r].keyword))

\* C11 witness: the urls /app/dashboard, /app/billing and /app/dashboard/x of
\* one organization, flushed with the value 2 for the rule "dashboard".
C11_Witness ==
    /\ Len(consumed) = 3
    /\ consumed[1].url = DashboardUrl
    /\ consumed[2].url = BillingUrl
    /\ consumed[3].url = DashboardSubUrl
    /\ \E f \in 1..Len(flushed) :
          /\ flushed[f].event = "page-view"
          /\ flushed[f].org_id = "7"
          /\ flushed[f].properties["dashboard_views_past_90_days"] = 2

(***************************************************************************)
(* Properties of the flush of mixpanel_kpi.main, checked under             *)
(* SpecMixpanel.                                                           *)
(***************************************************************************)
\* the search_company calls made for organization o
SearchesOf(o) == {k \in 1..Len(searches) : searches[k].org_id = o}

\* C17: in one run search_company is called at most once per organization
\* id, whatever the first call gave (a company, no company, or an
\* exception); every flushed pair of an organization carries the result of
\* that one call, and the cache holds exactly the organizations looked up.
C17_OneLookupPerOrg ==
    /\ \A i, j \in 1..Len(searches) :
          i # j => searches[i].org_id # searches[j].org_id
    /\ \A f \in 1..Len(flushed) :
          /\ Cardinality(SearchesOf(flushed[f].org_id)) = 1
          /\ \A k \in SearchesOf(flushed[f].org_id) :
                /\ flushed[f].company = searches[k].company
                /\ searches[k].raised => searches[k].company = None
    /\ mx_pc \in {"flush", "done"} =>
          /\ DOMAIN hubspot_cache = {searches[k].org_id : k \in 1..Len(searches)}
          /\ \A k \in 1..Len(searches) :
                hubspot_cache[searches[k].org_id] = searches[k].company

\* C17 witness: a finished run with two metrics for each of two
\* organizations and two lookups in all: the one of "7" raised, the one of
\* "o2" found a company.
C17_Witness ==
    /\ mx_pc = "done"
    /\ Len(searches) = 2
    /\ Cardinality(FlushedPairs("api-call", "7")) = 1
    /\ Cardinality(FlushedPairs("page-view", "7")) = 1
    /\ Cardinality(FlushedPairs("api-call", "o2")) = 1
    /\ Cardinality(FlushedPairs("page-view", "o2")) = 1
    /\ \E k \in SearchesOf("7") : searches[k].raised
    /\ \E k \in SearchesOf("o2") : searches[k].company = "c2"

\* C19: an update that failed (update_company_properties returned None or
\* raised) is the last update of the run and is reported as a failure.
C19_FailedUpdateIsFatal ==
    \A u \in 1..Len(updates) :
        updates[u].outcome # "ok" =>
            /\ u = Len(updates)
            /\ updates[u].reported = "failed"

(***************************************************************************)
(* Properties of the staged batch write of arr_sync.main, checked under    *)
(* SpecArr.                                                                *)
(***************************************************************************)
\* ceil(n / b)
CeilDiv(n, b) == (n + b - 1) \div b

\* the rows of the chunks written so far, in the order written
RECURSIVE RowsWritten(_)
RowsWritten(ws) ==
    IF ws = <<>> THEN <<>>
    ELSE RowsWritten(SubSeq(ws, 1, Len(ws) - 1)) \o ws[Len(ws)].chunk

\* the chunk loop ran to its end without a failed write
FlushComplete == writes # <<>> /\ writes[Len(writes)].ok /\ ar_pc # "flush"

\* C14: the w-th chunk written starts at staged row (w-1)*BATCH_SIZE and holds
\* the next BATCH_SIZE staged rows in their order, or all the remaining rows if
\* fewer are left; no more than ceil(n / BATCH_SIZE) chunks are written, and
\* when all writes succeeded exactly that many, the rows written being the
\* staged rows, each once, in order.
C14_ChunksOfBatchSize ==
    LET n == Len(sheet_updates) IN
    /\ Len(writes) <= CeilDiv(n, BATCH_SIZE)
    /\ \A w \in 1..Len(writes) :
          LET c == writes[w].chunk IN
          /\ writes[w].start = (w - 1) * BATCH_SIZE
          /\ Len(c) >= 1
          /\ Len(c) = BATCH_SIZE \/ (Len(c) < BATCH_SIZE /\ writes[w].start + Len(c) = n)
          /\ \A k \in 1..Len(c) : c[k] = sheet_updates[writes[w].start + k]
    /\ FlushComplete =>
          /\ Len(writes) = CeilDiv(n, BATCH_SIZE)
          /\ RowsWritten(writes) = sheet_updates
          /\ \A i \in 1..(n - 1) : sheet_updates[i] < sheet_updates[i + 1]

\* C14 witness: 450 staged rows written in chunks of 200, 200 and 50.
C14_Witness ==
    /\ Len(sheet_updates) = 450
    /\ FlushComplete
    /\ Len(writes) = 3
    /\ Len(writes[1].chunk) = 200
    /\ Len(writes[2].chunk) = 200
    /\ Len(writes[3].chunk) = 50

\* C15: a failed chunk write is the last write of the run; main has ended
\* on it without any company update; the range in the error message runs
\* from start + 2 to the row of the chunk's last entry and names exactly the
\* sheet rows of the chunk's entries; the chunks before it were written and
\* nothing clears them afterwards; an ended run takes no further step.
C15_ChunkFailureAborts ==
    /\ \A w \in 1..Len(writes) :
          ~writes[w].ok =>
             LET c == writes[w].chunk IN
             /\ w = Len(writes)
             /\ ar_pc = "ended" /\ ar_end = "chunk"
             /\ arr_updates = <<>>
             /\ reported = <<writes[w].start + 2, writes[w].start + 2 + Len(c) - 1>>
             /\ {c[k] : k \in 1..Len(c)} = reported[1]..reported[2]
             /\ \A v \in 1..(w - 1) : writes[v].ok
             /\ Len(clears) = 1
    /\ reported # <<>> => writes # <<>> /\ ~writes[Len(writes)].ok
    /\ ar_pc = "ended" => ~ENABLED NextArr

\* C15 witness: of 450 staged rows the second chunk failed after the first
\* was written, and rows 202 to 401 were reported.
C15_Witness ==
    /\ Len(sheet_updates) = 450
    /\ Len(writes) = 2
    /\ writes[1].ok /\ ~writes[2].ok
    /\ reported = <<202, 401>>
    /\ ar_end = "chunk"

\* C16: the destination is cleared at most once, and not at all when no row
\* is staged; once rows are staged and the chunk loop is entered it has been
\* cleared once; every chunk write is made after a clear that succeeded.
C16_ClearedOnceBeforeWrites ==
    /\ Len(clears) <= 1
    /\ (ar_pc \notin {"search", "stage"} /\ sheet_updates = <<>>) => clears = <<>>
    /\ ar_pc = "flush" => Len(clears) = 1
    /\ writes # <<>> => clears = <<TRUE>>

(***************************************************************************)
(* Properties of DB_kpi, checked under SpecDb.                             *)
(***************************************************************************)
\* the (organization_id, kpi) pair of a row
PairOf(row) == <<row.organization_id, row.kpi>>

\* the rows of the window that belong to a pair
WindowOf(pair) == {i \in 1..Len(kpi_rows) : PairOf(kpi_rows[i]) = pair}

\* the values a pair has at its earliest and at its latest timestamp
EarliestValues(pair) ==
    {kpi_rows[i].value : i \in {i \in WindowOf(pair) :
        \A j \in WindowOf(pair) : kpi_rows[i].run_timestamp <= kpi_rows[j].run_timestamp}}

LatestValues(pair) ==
    {kpi_rows[i].value : i \in {i \in WindowOf(pair) :
        \A j \in WindowOf(pair) : kpi_rows[i].run_timestamp >= kpi_rows[j].run_timestamp}}

\* the rows of the result that belong to a pair
ResultOf(pair) == {k \in 1..Len(db_result) : PairOf(db_result[k]) = pair}

\* C12: for every (organization_id, kpi) pair with a row in the window the
\* result of fetch_kpis has a row, and every row it has for the pair gives
\* first_value = a value at the pair's earliest timestamp, last_value = a
\* value at its latest timestamp and delta = last_value - first_value,
\* wherever the rows stand in the table; for a pair with one row
\* first_value = last_value and delta = 0.
C12_DeltaOfEarliestAndLatest ==
    db_pc \notin {"idle", "fetch"} =>
        \A i \in 1..Len(kpi_rows) :
            LET pair == PairOf(kpi_rows[i]) IN
            /\ ResultOf(pair) # {}
            /\ \A k \in ResultOf(pair) :
                  /\ \E f \in EarliestValues(pair), l \in LatestValues(pair) :
                        /\ db_result[k].first_value = {f}
                        /\ db_result[k].last_value = {l}
                        /\ db_result[k].delta = {l - f}
                  /\ Cardinality(WindowOf(pair)) = 1 =>
                        /\ db_result[k].first_value = db_result[k].last_value
                        /\ db_result[k].delta = {0}

\* C13: the result of fetch_kpis has exactly one row for every
\* (organization_id, kpi) pair with a row in the window and none for any
\* other pair, and the first loop of main stores a delta under each
\* (organization_id, kpi) key at most once.
C13_OneDeltaRowPerPair ==
    db_pc \notin {"idle", "fetch"} =>
        /\ \A i \in 1..Len(kpi_rows) : Cardinality(ResultOf(PairOf(kpi_rows[i]))) = 1
        /\ \A k \in 1..Len(db_result) : WindowOf(PairOf(db_result[k])) # {}
        /\ \A j, k \in 1..db_row :
              j # k => PairOf(db_result[j]) # PairOf(db_result[k])

\* C18: after a lookup that raised or found no company no update is issued
\* for that organization and the run goes on: main does not end before the
\* second loop has taken every organization.
C18_LookupMissContinues ==
    \A k \in 1..Len(db_searches) :
        (db_searches[k].raised \/ ~db_searches[k].found) =>
            /\ \A u \in 1..Len(db_updates) :
                  db_updates[u].org_id # db_searches[k].org_id
            /\ (db_pc = "ended" /\ k = Len(db_searches)) =>
                  db_org = Len(aggregated_data)

(***************************************************************************)
(* Properties of single calls of the connectors, checked under SpecCall.   *)
(***************************************************************************)
\* the call breaks the contract of its operation
ContractViolation ==
    \/ cf_call.op = "MixpanelConnector" /\ MissingCredential(cf_call)
    \/ cf_call.op # "MixpanelConnector" /\ EmptyArgument(cf_call)

\* the HubSpot access token is missing
TokenMissing == cf_call.op \in HubSpotOps /\ ~Truthy(cf_call.token)

\* C20: a call that breaks its operation's contract, or that is made on a
\* HubSpotConnector without access token, never sends an HTTP request; once
\* the code of the operation has run, a call that breaks the contract has
\* raised ValueError.
C20_ViolationFailsBeforeRequest ==
    /\ (ContractViolation \/ TokenMissing) => cf_sent = 0
    /\ (ContractViolation /\ cf_pc \notin {"call", "generator"}) =>
          cf_pc = "raised" /\ cf_exc = "ValueError"


(***************************************************************************)
(* Properties of the line loop of export_events, checked under SpecExport. *)
(***************************************************************************)
\* the line is not empty and its bytes are the text of a JSON document
ParsesAsJson(line) == line # <<>> /\ ~DecodeRaises(line) /\ JsonLoads(line).ok

\* the values of the lines of a prefix that parse as JSON, in stream order
RECURSIVE ParsedValues(_)
ParsedValues(lines) ==
    IF lines = <<>> THEN <<>>
    ELSE LET front == ParsedValues(SubSeq(lines, 1, Len(lines) - 1))
             line  == lines[Len(lines)]
         IN IF ParsesAsJson(line) THEN Append(front, JsonLoads(line).value) ELSE front

\* C21: export_events yields exactly the non-empty lines of the response
\* that parse as JSON, in stream order, and a line that does not parse never
\* ends the iteration: the generator ends only when the lines are exhausted.
C21_YieldsParsableLines ==
    /\ ex_yielded = ParsedValues(SubSeq(ex_lines, 1, ex_pos))
    /\ ex_pc # "raised"
    /\ ex_pc = "exhausted" => ex_pos = Len(ex_lines)


(***************************************************************************)
(* Properties of the buckets of organizations that were not pre-seeded,    *)
(* checked under SpecMixpanel.                                             *)
(***************************************************************************)
\* positions of the events of name n and organization o that the loop did
\* not discard: attributable, and not a repetition of a non-empty $insert_id
SurvivorsOf(n, o) ==
    {i \in NamePositions(n) :
        /\ Attributable(consumed[i])
        /\ Str(consumed[i].organization_id) = o
        /\ (consumed[i].insert_id \in {None, ""} \/ FirstOfItsId(i))}

\* the organizations the attributable events of the stream name
OrgsSeen ==
    {Str(consumed[i].organization_id) :
        i \in {j \in 1..Len(consumed) : Attributable(consumed[j])}}

MappingOf(n) == EventMap[CHOOSE i \in 1..Len(EventMap) : EventMap[i].event = n]

\* C22: an organization that get_property_values did not return has a
\* bucket under an event name exactly when an event of that name survived
\* for it; the bucket comes after the pre-seeded ones, counts every such
\* event from 0 and holds their urls; and at the end of the run the bucket
\* has been flushed once, with the payload of its counts, in an update when
\* the organization resolved to a company.
C22_LateOrgAggregated ==
    \A n \in TrackedNames, o \in OrgsSeen \ PreSeeded :
        /\ HasBucket(aggregated[n], o) <=> SurvivorsOf(n, o) # {}
        /\ HasBucket(aggregated[n], o) =>
              LET b == BucketIndex(aggregated[n], o) IN
              /\ b > Len(org_ids)
              /\ aggregated[n][b].count = Cardinality(SurvivorsOf(n, o))
              /\ Len(aggregated[n][b].urls) =
                    Cardinality({i \in SurvivorsOf(n, o) : consumed[i].url # NoUrl})
              /\ mx_pc = "done" =>
                    /\ Cardinality(FlushedPairs(n, o)) = 1
                    /\ \A f \in FlushedPairs(n, o) :
                          /\ flushed[f].properties =
                                PropertyUpdates(MappingOf(n), aggregated[n][b])
                          /\ Truthy(flushed[f].company) =>
                                \E u \in 1..Len(updates) :
                                    /\ updates[u].org_id = o
                                    /\ updates[u].properties = flushed[f].properties

\* C22 witness: no organization was pre-seeded, the stream held one
\* "api-call" event of organization 7, and the run ended after sending the
\* count 1 for it.
C22_Witness ==
    /\ mx_pc = "done"
    /\ org_ids = <<>>
    /\ Len(consumed) = 1
    /\ consumed[1].event = "api-call"
    /\ consumed[1].organization_id = "#7"
    /\ aggregated["api-call"] = <<[org_id |-> "7", urls |-> <<>>, count |-> 1]>>
    /\ \E u \in 1..Len(updates) :
          /\ updates[u].org_id = "7"
          /\ updates[u].properties = [p \in {"api_calls_past_90_days"} |-> 1]


(***************************************************************************)
(* Properties of the duplicate filter of the event loop, checked under     *)
(* SpecAggregate.                                                          *)
(***************************************************************************)
\* the count of the bucket of (n, o), 0 when there is no bucket
CountOf(n, o) ==
    IF HasBucket(aggregated[n], o)
    THEN aggregated[n][BucketIndex(aggregated[n], o)].count
    ELSE 0

\* the non-empty $insert_id values of the events of name n, whatever their
\* organization
IdsOf(n) ==
    {consumed[i].insert_id : i \in {j \in NamePositions(n) : Truthy(consumed[j].insert_id)}}

\* C23: the seen set of an event name holds the non-empty $insert_id of
\* every event of that name met so far, the events without attributable
\* organization included; and a bucket counts an event only if no earlier
\* event of the name, attributable or not, carried its id.
C23_IdSeenBeforeOrgCheck ==
    \A n \in TrackedNames :
        /\ seen_insert_ids[n] = IdsOf(n)
        /\ \A o \in OrgsSeen \cup PreSeeded :
              CountOf(n, o) = Cardinality(SurvivorsOf(n, o))

\* C23 witness: an "api-call" event with id "a" and organization "UNKNOWN"
\* was followed by one with id "a" and organization 7; the id is in the seen
\* set and nothing was counted for organization 7.
C23_Witness ==
    /\ Len(consumed) = 2
    /\ consumed[1] = Event("api-call", "a", "UNKNOWN", NoUrl)
    /\ consumed[2] = Event("api-call", "a", "#7", NoUrl)
    /\ "a" \in seen_insert_ids["api-call"]
    /\ CountOf("api-call", "7") = 0


\* the count of the bucket of (n, o) in a value of aggregated, 0 without bucket
CountIn(agg, n, o) ==
    IF HasBucket(agg[n], o) THEN agg[n][BucketIndex(agg[n], o)].count ELSE 0

\* one iteration of the event loop on an event of name n that is
\* attributable and whose $insert_id no earlier event of name n carried
CountedStep(n) ==
    /\ Len(consumed') = Len(consumed) + 1
    /\ consumed'[Len(consumed')].event = n
    /\ Attributable(consumed'[Len(consumed')])
    /\ consumed'[Len(consumed')].insert_id \notin IdsOf(n)

\* C24: an event is counted in its bucket whenever it is attributable and
\* its $insert_id was not met before under its own event name, whatever ids
\* were met under the other names; and an event of one name changes neither
\* the seen set nor the buckets of another name.
C24_DedupPerEventName ==
    [][\A n \in TrackedNames :
          /\ CountedStep(n) =>
                CountIn(aggregated', n, Str(consumed'[Len(consumed')].organization_id)) =
                    CountIn(aggregated, n, Str(consumed'[Len(consumed')].organization_id)) + 1
          /\ (Len(consumed') = Len(consumed) + 1 /\ consumed'[Len(consumed')].event # n) =>
                /\ seen_insert_ids'[n] = seen_insert_ids[n]
                /\ aggregated'[n] = aggregated[n]]_vars

\* C24 witness: an "api-call" and a "page-view" event of organization 7
\* with the same id "a", each counted under its name.
C24_Witness ==
    /\ Len(consumed) = 2
    /\ consumed[1] = Event("api-call", "a", "#7", NoUrl)
    /\ consumed[2].event = "page-view"
    /\ consumed[2].insert_id = "a"
    /\ consumed[2].organization_id = "#7"
    /\ CountOf("api-call", "7") = 1
    /\ CountOf("page-view", "7") = 1
    /\ seen_insert_ids = [n \in TrackedNames |-> {"a"}]


(***************************************************************************)
(* Properties of the buckets while the stream is consumed, checked under   *)
(* SpecAggregate.                                                          *)
(***************************************************************************)
\* the organizations that have a bucket under n in a value of aggregated
BucketOrgs(agg, n) == {agg[n][i].org_id : i \in 1..Len(agg[n])}

\* the samples of the bucket of (n, o) in a value of aggregated
UrlsIn(agg, n, o) ==
    IF HasBucket(agg[n], o) THEN agg[n][BucketIndex(agg[n], o)].urls ELSE <<>>

\* the loop does not discard the event: its name is tracked, no earlier
\* event of the name carried its non-empty $insert_id, and its organization
\* is attributable
Survives(e) ==
    /\ e.event \in TrackedNames
    /\ ~(Truthy(e.insert_id) /\ e.insert_id \in IdsOf(e.event))
    /\ Attributable(e)

\* in every bucket the count is a natural number and no smaller than the
\* number of samples
BucketsInRange ==
    \A n \in TrackedNames : \A i \in 1..Len(aggregated[n]) :
        /\ aggregated[n][i].count \in Nat
        /\ Len(aggregated[n][i].urls) <= aggregated[n][i].count

\* one iteration of the loop: a surviving event adds 1 to the count of the
\* bucket of its name and organization and at most one sample to it, and
\* nothing to any other bucket; a discarded event changes no bucket
BucketStep ==
    Len(consumed') = Len(consumed) + 1 =>
        LET e == consumed'[Len(consumed')] IN
        IF Survives(e)
        THEN \A n \in TrackedNames :
                /\ BucketOrgs(aggregated, n) \subseteq BucketOrgs(aggregated', n)
                /\ \A o \in BucketOrgs(aggregated', n) :
                      IF n = e.event /\ o = Str(e.organization_id)
                      THEN /\ CountIn(aggregated', n, o) = CountIn(aggregated, n, o) + 1
                           /\ UrlsIn(aggregated', n, o) \in
                                 {UrlsIn(aggregated, n, o),
                                  Append(UrlsIn(aggregated, n, o), e.url)}
                      ELSE /\ CountIn(aggregated', n, o) = CountIn(aggregated, n, o)
                           /\ UrlsIn(aggregated', n, o) = UrlsIn(aggregated, n, o)
        ELSE aggregated' = aggregated

\* C25: while the stream is consumed every count is a natural number that
\* no step decreases and no bucket holds more samples than its count; a
\* surviving event raises exactly one count by exactly 1 and appends at most
\* one sample to that bucket; a discarded event changes no bucket.
C25_BucketsGrowByOne ==
    /\ []BucketsInRange
    /\ [][BucketStep]_vars

\* C25 witness: three "page-view" events of organization 7 were consumed,
\* one discarded as a duplicate and two counted, one of these without url:
\* the bucket holds count 2 and 1 sample.
C25_Witness ==
    /\ Len(consumed) = 3
    /\ \A i \in 1..3 :
          consumed[i].event = "page-view" /\ consumed[i].organization_id = "#7"
    /\ consumed[1].insert_id = "a" /\ consumed[1].url = DashboardUrl
    /\ consumed[2].insert_id = "a"
    /\ consumed[3].insert_id = None /\ consumed[3].url = NoUrl
    /\ CountOf("page-view", "7") = 2
    /\ UrlsIn(aggregated, "page-view", "7") = <<DashboardUrl>>


(***************************************************************************)
(* Properties of the order of the two stages of mixpanel_kpi.main, checked *)
(* under SpecMixpanel.                                                     *)
(***************************************************************************)
\* a call of hubcon.search_company or hubcon.update_company_properties was made
CrmCalled == searches # <<>> \/ updates # <<>>

\* C26: no CRM search and no CRM update is made while the export stream is
\* being consumed, and once the first CRM call has been made no event is
\* consumed and no bucket and no seen set changes.
C26_StreamBeforeFlush ==
    /\ [](CrmCalled => mx_pc \in {"flush", "done"})
    /\ [](mx_pc = "stream" => flushed = <<>>)
    /\ [][(CrmCalled \/ CrmCalled') =>
              /\ consumed' = consumed
              /\ aggregated' = aggregated
              /\ seen_insert_ids' = seen_insert_ids]_vars

\* C26 witness: a finished run that consumed two events and then made
\* lookups and updates.
C26_Witness ==
    /\ mx_pc = "done"
    /\ Len(consumed) = 2
    /\ \E i \in 1..2 : Survives(consumed[i])
    /\ Len(searches) >= 1
    /\ Len(updates) >= 2


(***************************************************************************)
(* Properties of the aborts of arr_sync.main and of its company-update     *)
(* stage, checked under SpecArr.                                           *)
(***************************************************************************)
\* main has not touched a destination: the sheet was neither cleared nor
\* written and no company update was sent
NoDestinationEffect == clears = <<>> /\ writes = <<>> /\ arr_updates = <<>>

\* C27: when the deal search was cut short by a non-200 answer, main returns
\* right after the search without clearing the sheet, writing a row or
\* updating a company.
C27_FailedDealSearchReturns ==
    deal_search = "aborted" =>
        /\ ar_pc = "ended"
        /\ ar_end = "no_deals"
        /\ NoDestinationEffect

\* C28: once a retrieval of the staging loop has failed (get_associations
\* gave None or a payload without "results", get_line_item_by_id gave None or
\* a body without "properties"), main has returned for that reason, and the
\* sheet was neither cleared nor written and no company was updated.
C28_StagingFailureAborts ==
    /\ stage_failure # "none" =>
          /\ ar_pc = "ended"
          /\ ar_end = stage_failure
          /\ NoDestinationEffect
          /\ reported = <<>>
    /\ ar_end \in {"associations", "payload", "line_item"} => stage_failure = ar_end

\* C28 witness: the retrieval of a line item failed after more rows than one
\* chunk holds were staged, and main has returned.
C28_Witness ==
    /\ ar_pc = "ended"
    /\ stage_failure = "line_item"
    /\ Len(sheet_updates) > BATCH_SIZE
    /\ skipped = 1

\* the company updates that returned a result
AppliedUpdates == {k \in 1..Len(arr_updates) : arr_updates[k].outcome = "ok"}

\* C29: only rows with at least 4 cells and a company id are sent, in sheet
\* order and each at most once; every update before the last one was
\* applied, so that nothing is sent after a failed update; updated_count is
\* the number of updates applied, which after a failure is the number of
\* rows sent before the failing one; and the stage stops early only for a
\* failed update.
C29_CompanyUpdatesFailFast ==
    /\ \A k \in 1..Len(arr_updates) :
          /\ arr_updates[k].cells >= 4
          /\ arr_updates[k].company_id # ""
          /\ arr_updates[k].row <= sheet_pos
    /\ \A k \in 1..(Len(arr_updates) - 1) :
          /\ arr_updates[k].outcome = "ok"
          /\ arr_updates[k].row < arr_updates[k + 1].row
    /\ updated_count = Cardinality(AppliedUpdates)
    /\ (arr_updates # <<>> /\ arr_updates[Len(arr_updates)].outcome # "ok") =>
          /\ ar_pc = "ended"
          /\ ar_end = IF arr_updates[Len(arr_updates)].outcome = "none"
                      THEN "update" ELSE "exception"
          /\ updated_count = Len(arr_updates) - 1
          /\ sheet_pos = arr_updates[Len(arr_updates)].row
    /\ ar_end = "update" =>
          /\ arr_updates # <<>>
          /\ arr_updates[Len(arr_updates)].outcome = "none"

\* C29 witness: the first row of the company sheet was skipped, the update
\* of the second was applied, the update of the third failed and main
\* returned with updated_count = 1.
C29_Witness ==
    /\ ar_end = "update"
    /\ sheet_pos = 3
    /\ Len(arr_updates) = 2
    /\ arr_updates[1].row = 2 /\ arr_updates[1].outcome = "ok"
    /\ arr_updates[2].row = 3 /\ arr_updates[2].outcome = "none"
    /\ updated_count = 1

(***************************************************************************)
(* Properties of a HubSpot request that is rate-limited to the end,        *)
(* checked under SpecCall.                                                 *)
(***************************************************************************)
\* the request of the call was sent max_retries + 1 times and every attempt
\* was answered with status 429
RateLimitedThroughout ==
    /\ cf_call.op \in HubSpotOps
    /\ Len(cf_met) = DEFAULT_MAX_RETRIES + 1
    /\ \A i \in 1..Len(cf_met) : cf_met[i] = 429

\* C30: when every one of the max_retries + 1 attempts of a HubSpot request
\* is answered 429, _request raises nothing and hands the last 429 back as
\* its response after exactly max_retries + 1 requests; the operation logs
\* an error and not a success, update_object and get_object return None,
\* search_objects and search_company abort the search, and none returns
\* the body of the response.
C30_ExhaustedRateLimitIsFailure ==
    RateLimitedThroughout =>
        /\ cf_pc = "returned"
        /\ cf_exc = None
        /\ cf_sent = DEFAULT_MAX_RETRIES + 1
        /\ cf_ret.status = 429
        /\ cf_ret.log = "error"
        /\ cf_ret.value # "json"
        /\ cf_call.op \in {"update_object", "get_object"} => cf_ret.value = "None"
        /\ cf_call.op \in SearchOps => cf_ret.aborted

\* C30 witness: an update_object call whose four attempts were all answered
\* 429 has returned None.
C30_Witness ==
    /\ RateLimitedThroughout
    /\ cf_call.op = "update_object"
    /\ cf_pc = "returned"
    /\ cf_ret.value = "None"

(***************************************************************************)
(* Properties of the row numbering of the staging loop of arr_sync.main,   *)
(* checked under SpecArr.                                                  *)
(***************************************************************************)
\* main has passed the test of the deal search and assigned row_index and
\* sheet_updates
StagingBegun ==
    /\ ar_pc # "search"
    /\ deal_search # "raised"
    /\ ar_end # "no_deals"

\* C31: once the staging loop has begun, the i-th staged update (0-based)
\* names sheet row i + 2 and row_index is 2 plus the number of staged
\* updates, whatever was skipped; and every chunk handed to
\* batch_update_values from index start names the rows start + 2,
\* start + 3, ... in order.
C31_StagedRowsConsecutive ==
    StagingBegun =>
        /\ \A i \in 1..Len(sheet_updates) : sheet_updates[i] = (i - 1) + 2
        /\ row_index = 2 + Len(sheet_updates)
        /\ \A w \in 1..Len(writes) :
              \A j \in 1..Len(writes[w].chunk) :
                  writes[w].chunk[j] = writes[w].start + 2 + (j - 1)

\* C31 witness: a run in which something was skipped during staging and
\* whose second chunk, the one from index BATCH_SIZE, has been written.
C31_Witness ==
    /\ StagingBegun
    /\ skipped > 0
    /\ Len(writes) = 2
    /\ writes[2].start = BATCH_SIZE
    /\ Len(writes[2].chunk) > 1

(***************************************************************************)
(* Properties of the number mixpanel_kpi.main prints at its end, checked   *)
(* under SpecMixpanel.                                                     *)
(***************************************************************************)
\* the organizations with at least one update that succeeded
SucceededOrgs ==
    {updates[u].org_id : u \in {k \in 1..Len(updates) : updates[k].outcome = "ok"}}

\* C32: at the end of a run, the number printed as company profiles
\* updated is the number of distinct organizations with at least one
\* update that succeeded, and every update that failed was reported as a
\* failure.
C32_CountIsSucceededOrgs ==
    mx_pc = "done" =>
        /\ companies_updated = Cardinality(SucceededOrgs)
        /\ \A u \in 1..Len(updates) :
              updates[u].outcome # "ok" => updates[u].reported = "failed"

====
